---- MODULE Spec2Model ----
\* Model of slicex.MapConcurrentHandler (src/slicex/slicex.go, lines 141-262):
\* the fluent configuration, and Execute with its worker goroutines, its
\* dispatcher goroutine, the buffered job channel, the coordination context
\* derived from the caller's context, and the final errors.Join.
\* Model of package idx (src/idx): ID, ParseID, Type and Namespace, as pure
\* functions over strings applied by the actions of IdSpec.
\* Model of the slice helpers Unique, FilterNonZero, Map and Group
\* (src/slicex/slicex.go, lines 77-139) over a heap of backing arrays,
\* one loop iteration per step (HelperSpec).
EXTENDS Integers, Sequences, FiniteSets, Bags, TLC

\* ---------------------------------------------------------------- bounds
MaxLen == 3          \* longest input slice explored
MaxVal == 2          \* input elements are drawn from 1..MaxVal
MaxConc == 2         \* largest explicit WithConcurrency argument explored
MaxCalls == 2        \* Execute calls made one after the other on the handler
MaxStr == 6          \* longest string handed to ParseID
MaxPart == 2         \* longest environment / value string handed to idx
MaxTypeStr == 2      \* longest Type string explored (besides the long ones)
MaxItems == 3        \* longest slice handed to the slice helpers
MaxElem == 2         \* helper slice elements are drawn from 0..MaxElem

\* ------------------------------------------------------ program constants
DefaultConcurrency == 8

Values == 1..MaxVal
\* WithConcurrency stores any int: a negative one, zero, and the valid ones
Concurrencies == {-1, 0} \cup (1..MaxConc)

VARIABLES
    concurrency,   \* h.concurrency
    stopOnError,   \* h.stopOnError
    fails,         \* h.mapFunc: the input values on which it returns an error
    items,         \* the slice passed to Execute
    ctxDone,       \* the caller's (ambient) context is cancelled / expired
    mainPc,        \* position of the goroutine that configures and calls Execute
    numWorkers,    \* numWorkers local of Execute
    results,       \* results slice
    errs,          \* errs slice (len(items)+1 slots)
    jobs,          \* content of the buffered jobs channel
    jobsClosed,    \* close(jobs) has run
    childCreated,  \* context.WithCancel(ctx) has run: the coordination context exists
    childDone,     \* the coordination context (child) is cancelled
    dispPc,        \* dispatcher goroutine: "unspawned", "loop", "done"
    dispNext,      \* dispatcher loop index (1-based) of the next item to send
    idle,          \* number of workers blocked in the select
    running,       \* bag of the jobs whose mapFunc call is in flight, one per worker
    exited,        \* number of workers that returned (wg.Done ran)
    output,        \* first return value of Execute
    retErr,        \* second return value of Execute
    calls,         \* history: calls[i] = mapFunc invocations started for index i
    sent,          \* history: sent[i] = jobs submitted for index i
    returnedErrs,  \* history: the errors returned by mapFunc invocations, by index
    ctxAtJoin,     \* history: ctxDone at the moment wg.Wait returned
    callNo,        \* history: number of the Execute call on this handler
    setConc,       \* history: <<n>> for the last WithConcurrency(n), else <<>>
    setStop,       \* history: <<b>> for the last WithStopOnError(b), else <<>>
    idOp,          \* idx: how the ID is obtained: "parse", "new", "literal",
                   \*      "newid", "zerons" (from a zero-value Namespace);
                   \*      or "type" (a Type is checked), "namespace"
    argS,          \* idx: the string handed to ParseID
    argEnv,        \* idx: the environment handed to NewNamespace / the env field
    argType,       \* idx: the Type handed to NewIDWithValue / the objectType field
    argValue,      \* idx: the value handed to NewIDWithValue / the objectID field
    idPc,          \* idx: "off", "input", "made", "serialised", "reparsed",
                   \*      "checked", "validated", "typed", "named"
    id,            \* idx: the ID value obtained
    idErr,         \* idx: the error returned with it
    str,           \* idx: id.String()
    parsed,        \* idx: the ID returned by ParseID(id.String())
    parsedErr,     \* idx: the error returned by ParseID(id.String())
    ns,            \* idx: the Namespace returned by NewNamespace
    valErr,        \* idx: the error returned by Type(s).Validate()
    idValErr,      \* idx: the error returned by id.Validate()
    typ,           \* idx: the Type returned by ParseType(s)
    typErr,        \* idx: the error returned by ParseType(s)
    hOp,           \* helpers: "Unique", "FilterNonZero", "Map", "Group"
    hPc,           \* helpers: "off", "call", "loop", "returned"
    heap,          \* helpers: the backing arrays, by address 1..Len(heap)
    slice,         \* helpers: the slice argument (a slice header)
    hI,            \* helpers: position of the range loop (1-based)
    seen,          \* helpers: the seen map of Unique, as the set of its keys
    result,        \* helpers: the result slice header of Unique, FilterNonZero, Map
    groups,        \* helpers: the result map of Group
    fnCalls,       \* helpers history: the arguments fn / keyFn was called with
    slice0         \* helpers history: the elements of the argument at the call

vars == <<concurrency, stopOnError, fails, items, ctxDone, mainPc, numWorkers,
          results, errs, jobs, jobsClosed, childCreated, childDone, dispPc,
          dispNext, idle,
          running, exited, output, retErr, calls, sent, returnedErrs,
          ctxAtJoin, callNo, setConc, setStop,
          idOp, argS, argEnv, argType, argValue, idPc, id, idErr, str,
          parsed, parsedErr, ns, valErr, idValErr, typ, typErr,
          hOp, hPc, heap, slice, hI, seen, result, groups, fnCalls, slice0>>

cfgVars == <<concurrency, stopOnError, fails>>
poolVars == <<numWorkers, results, errs, jobs, jobsClosed, childCreated,
              dispPc, dispNext, idle, running, exited>>
retVars == <<output, retErr>>
histVars == <<calls, sent, returnedErrs, ctxAtJoin>>
callVars == <<callNo, setConc, setStop>>
idArgs == <<idOp, argS, argEnv, argType, argValue>>
typeVars == <<valErr, typ, typErr>>
idVars == <<idArgs, idPc, id, idErr, str, parsed, parsedErr, ns, typeVars,
            idValErr>>
helperVars == <<hOp, hPc, heap, slice, hI, seen, result, groups, fnCalls,
                slice0>>
execVars == <<cfgVars, items, ctxDone, mainPc, childDone, poolVars, retVars,
              histVars, callVars>>

\* ------------------------------------------------------------ data values
\* Go error values. NilErr is the nil error.
NilErr == [kind |-> "nil", v |-> 0]
\* the error mapFunc returns for a failing element ("error at <v>")
ElemErr(v) == [kind |-> "elem", v |-> v]
\* context.Canceled / context.DeadlineExceeded, as returned by ctx.Err()
CtxCanceled == [kind |-> "ctx", v |-> 0]

\* ctx.Err(): nil until the context is done
CtxErr(done) == IF done THEN CtxCanceled ELSE NilErr

\* the successful result of the test suites' mapFunc (n * 2)
MapFuncValue(v) == v * 2

\* zero value of R
ZeroR == 0

\* mapConcurrentJob[T]{index: i, value: item}
MakeJob(i, item) == [index |-> i, value |-> item]

\* a []R return value: nil, or a slice
NilSlice == [isNil |-> TRUE, elems |-> <<>>]
Slice(s) == [isNil |-> FALSE, elems |-> s]

\* a Join that keeps the nil entries
JoinKeepNil(es) == es

\* errors.Join: drops the nil errors, returns nil (here <<>>) when none is
\* left, otherwise an error wrapping the remaining ones in argument order
Join(es) == SelectSeq(es, LAMBDA e : e # NilErr)

\* err.Error() of a single error: one line of text
ErrText(e) ==
    IF e.kind = "elem" THEN <<"error at", e.v>> ELSE <<"context canceled", 0>>

\* joinError.Error(): the wrapped errors' texts, one per line
JoinText(j) == [k \in 1..Len(j) |-> ErrText(j[k])]

\* numWorkers of a pool that spawns a single worker for a valid concurrency
NumWorkersSingle(c, n) == IF c >= 1 /\ n >= 1 THEN 1 ELSE c

\* one worker per element, whatever the configured concurrency
NumWorkersPerItem(c, n) == n

\* numWorkers := h.concurrency; if n := len(items); n < numWorkers { numWorkers = n }
NumWorkers(c, n) == IF n < c THEN n ELSE c

\* a result appended in completion order instead of stored at its index
RecordResultAppend(res, job, v) ==
    LET free == {i \in 1..Len(res) : res[i] = ZeroR}
        k == IF free = {} THEN job.index
             ELSE CHOOSE i \in free : \A j \in free : i <= j
    IN  [res EXCEPT ![k] = v]

\* results[item.index] = v
RecordResult(res, job, v) == [res EXCEPT ![job.index] = v]

\* the error of a failed invocation is not stored
RecordErrorDropped(es, job, e) == es

\* only the first error is kept
RecordErrorFirstOnly(es, job, e) ==
    IF \E i \in 1..Len(es) : es[i] # NilErr THEN es
    ELSE [es EXCEPT ![job.index] = e]

\* the error is stored one slot too far
RecordErrorShifted(es, job, e) == [es EXCEPT ![job.index + 1] = e]

\* errs[item.index] = err
RecordError(es, job, e) == [es EXCEPT ![job.index] = e]

\* a worker that cancels on every error, whatever the policy
CancelsOnErrorAlways(stop) == TRUE

\* a failing worker neither cancels nor leaves, whatever the policy
CancelsOnErrorNever(stop) == FALSE

\* if h.stopOnError { cancel(); return }
CancelsOnError(stop) == stop

\* an aggregation that forgets ctx.Err()
AggregateNoCtx(es, done) == Join(es)

\* the context's error is joined in front of the element errors
AggregateCtxFirst(es, done) == Join(<<CtxErr(done)>> \o es)

\* errs = append(errs, ctx.Err()); errors.Join(errs...)
Aggregate(es, done) == Join(Append(es, CtxErr(done)))

\* the results are returned even when there is an error
ReturnedOutputAlways(res, agg) == Slice(res)

\* a receive that leaves the job in the channel
DequeuePeek(q) == q

\* <-jobs: the received job leaves the channel
Dequeue(q) == Tail(q)

\* a setter that ignores an invalid concurrency
SetConcurrencyIfValid(old, n) == IF n < 1 THEN old ELSE n

\* h.concurrency = n
SetConcurrency(old, n) == n

\* the capped worker count is written back to the handler
HandlerConcurrencyCapped(c, nw) == nw

\* numWorkers := h.concurrency; ... numWorkers = n: the cap is applied to the
\* local numWorkers, h.concurrency keeps its value
HandlerConcurrency(c, nw) == c

\* a job channel with room for a single job
JobsCapacityOne(n) == 1

\* make(chan mapConcurrentJob[T], len(items)): the capacity of the channel
JobsCapacity(n) == n

\* an Execute that does not wait for its workers
WaitReturnsAtOnce(ex, n) == TRUE

\* wg.Wait() returns when the numWorkers workers have called wg.Done()
WaitReturns(ex, n) == ex = n

\* mapFunc is handed the coordination context
MapFuncCtxChild(ambient, child) == child

\* h.mapFunc(ctx, item.value): the context mapFunc sees is the caller's ctx,
\* not child
MapFuncCtx(ambient, child) == ambient

\* an Execute without the early return
IsEmptyInputNever(s) == FALSE

\* len(items) == 0
IsEmptyInput(s) == Len(s) = 0

\* an Execute that forgets to release the coordination context
DeferredCloseMissing(closed) == closed

\* defer close(jobs): the dispatcher closes the job channel when it returns
DeferredClose(closed) == TRUE

DeferredCancelMissing(done) == done

\* defer cancel(): the coordination context is done when Execute is left
DeferredCancel(done) == TRUE

\* if err != nil { return nil, err }; return results, nil
ReturnedOutput(res, agg) == IF agg # <<>> THEN NilSlice ELSE Slice(res)

\* ------------------------------------------------------------------ Init
\* MapConcurrent(mapFunc): a handler with the defaults; the caller holds a
\* slice and a context that is not cancelled yet.
ExecInit ==
    /\ concurrency = DefaultConcurrency
    /\ stopOnError = TRUE
    /\ fails \in SUBSET Values
    /\ items \in UNION {[1..n -> Values] : n \in 0..MaxLen}
    /\ ctxDone = FALSE
    /\ mainPc = "config"
    /\ numWorkers = 0
    /\ results = <<>>
    /\ errs = <<>>
    /\ jobs = <<>>
    /\ jobsClosed = FALSE
    /\ childCreated = FALSE
    /\ childDone = FALSE
    /\ dispPc = "unspawned"
    /\ dispNext = 1
    /\ idle = 0
    /\ running = EmptyBag
    /\ exited = 0
    /\ output = NilSlice
    /\ retErr = <<>>
    /\ calls = [i \in 1..Len(items) |-> 0]
    /\ sent = [i \in 1..Len(items) |-> 0]
    /\ returnedErrs = [i \in 1..Len(items) |-> NilErr]
    /\ ctxAtJoin = FALSE
    /\ callNo = 1
    /\ setConc = <<>>
    /\ setStop = <<>>

\* package idx is not in use while the handler is explored
IdOff ==
    /\ idOp = "none"
    /\ argS = <<>>
    /\ argEnv = <<>>
    /\ argType = <<>>
    /\ argValue = <<>>
    /\ idPc = "off"
    /\ id = [env |-> <<>>, objectType |-> <<>>, objectID |-> <<>>]
    /\ idErr = <<>>
    /\ str = <<>>
    /\ parsed = [env |-> <<>>, objectType |-> <<>>, objectID |-> <<>>]
    /\ parsedErr = <<>>
    /\ ns = [environment |-> <<>>]
    /\ valErr = <<>>
    /\ idValErr = <<>>
    /\ typ = <<>>
    /\ typErr = <<>>

\* the slice helpers are not in use
HelperOff ==
    /\ hOp = "none"
    /\ hPc = "off"
    /\ heap = <<>>
    /\ slice = [arr |-> 0, len |-> 0, cap |-> 0]
    /\ hI = 1
    /\ seen = {}
    /\ result = [arr |-> 0, len |-> 0, cap |-> 0]
    /\ groups = [isNil |-> TRUE, m |-> <<>>]
    /\ fnCalls = <<>>
    /\ slice0 = <<>>

Init == ExecInit /\ IdOff /\ HelperOff

\* --------------------------------------------------------- configuration
\* h.concurrency = n; return h
WithConcurrency(n) ==
    /\ mainPc = "config"
    /\ concurrency' = SetConcurrency(concurrency, n)
    /\ UNCHANGED <<stopOnError, fails, items, ctxDone, mainPc, childDone>>
    /\ UNCHANGED <<poolVars, retVars, histVars>>
    /\ setConc' = <<n>>
    /\ UNCHANGED <<idVars, helperVars>>
    /\ UNCHANGED <<callNo, setStop>>

\* h.stopOnError = stop; return h
WithStopOnError(stop) ==
    /\ mainPc = "config"
    /\ stopOnError' = stop
    /\ UNCHANGED <<concurrency, fails, items, ctxDone, mainPc, childDone>>
    /\ UNCHANGED <<poolVars, retVars, histVars>>
    /\ setStop' = <<stop>>
    /\ UNCHANGED <<callNo, setConc, idVars, helperVars>>

\* ------------------------------------------------------------ environment
\* the caller's context is cancelled or its deadline expires
CancelAmbient ==
    /\ ~ctxDone
    /\ mainPc \in {"config", "waiting", "joined"}
    /\ ctxDone' = TRUE
    /\ UNCHANGED <<cfgVars, items, mainPc, childDone>>
    /\ UNCHANGED <<poolVars, retVars, histVars>>
    /\ UNCHANGED <<callVars, idVars, helperVars>>

\* context.WithCancel(ctx): a done parent cancels the child
PropagateCancel ==
    /\ mainPc \in {"waiting", "joined"}
    /\ ctxDone
    /\ ~childDone
    /\ childDone' = TRUE
    /\ UNCHANGED <<cfgVars, items, ctxDone, mainPc>>
    /\ UNCHANGED <<poolVars, retVars, histVars>>
    /\ UNCHANGED <<callVars, idVars, helperVars>>

\* ---------------------------------------------------------------- Execute
\* if len(items) == 0 { return nil, nil }
ExecuteEmpty ==
    /\ mainPc = "config"
    /\ IsEmptyInput(items)
    /\ mainPc' = "returned"
    /\ output' = NilSlice
    /\ retErr' = <<>>
    /\ UNCHANGED <<cfgVars, items, ctxDone, childDone>>
    /\ UNCHANGED <<poolVars, histVars>>
    /\ UNCHANGED <<callVars, idVars, helperVars>>

\* wg.Add(numWorkers) with a negative numWorkers panics; the deferred
\* cancel() runs while the panic unwinds
ExecutePanic ==
    /\ mainPc = "config"
    /\ ~IsEmptyInput(items)
    /\ NumWorkers(concurrency, Len(items)) < 0
    /\ mainPc' = "panicked"
    /\ numWorkers' = NumWorkers(concurrency, Len(items))
    /\ results' = [i \in 1..Len(items) |-> ZeroR]
    /\ errs' = [i \in 1..(Len(items) + 1) |-> NilErr]
    /\ childDone' = DeferredCancel(ctxDone)
    /\ UNCHANGED <<cfgVars, items, ctxDone>>
    /\ UNCHANGED <<jobs, jobsClosed, dispPc, dispNext, idle, running, exited>>
    /\ childCreated' = TRUE
    /\ UNCHANGED <<retVars, histVars>>
    /\ UNCHANGED <<callVars, idVars, helperVars>>

\* lines 183-241: size the pool, allocate the slots and the channel, derive
\* the coordination context, start the workers and the dispatcher
ExecuteStart ==
    /\ mainPc = "config"
    /\ ~IsEmptyInput(items)
    /\ NumWorkers(concurrency, Len(items)) >= 0
    /\ mainPc' = "waiting"
    /\ numWorkers' = NumWorkers(concurrency, Len(items))
    /\ results' = [i \in 1..Len(items) |-> ZeroR]
    /\ errs' = [i \in 1..(Len(items) + 1) |-> NilErr]
    /\ jobs' = <<>>
    /\ jobsClosed' = FALSE
    /\ childCreated' = TRUE
    /\ childDone' = ctxDone
    /\ idle' = NumWorkers(concurrency, Len(items))
    /\ running' = EmptyBag
    /\ exited' = 0
    /\ dispPc' = "loop"
    /\ dispNext' = 1
    /\ concurrency' = HandlerConcurrency(concurrency,
                                          NumWorkers(concurrency, Len(items)))
    /\ UNCHANGED <<stopOnError, fails, items, ctxDone>>
    /\ UNCHANGED <<retVars, histVars>>
    /\ UNCHANGED <<callVars, idVars, helperVars>>

\* wg.Wait() returns: every spawned worker has called wg.Done
WaitDone ==
    /\ mainPc = "waiting"
    /\ WaitReturns(exited, numWorkers)
    /\ mainPc' = "joined"
    /\ ctxAtJoin' = ctxDone
    /\ UNCHANGED <<cfgVars, items, ctxDone, childDone>>
    /\ UNCHANGED <<poolVars, retVars>>
    /\ UNCHANGED <<calls, sent, returnedErrs>>
    /\ UNCHANGED <<callVars, idVars, helperVars>>

\* lines 245-250 and the deferred cancel()
ExecuteReturn ==
    /\ mainPc = "joined"
    /\ mainPc' = "returned"
    /\ retErr' = Aggregate(errs, ctxDone)
    /\ output' = ReturnedOutput(results, Aggregate(errs, ctxDone))
    /\ childDone' = DeferredCancel(childDone)
    /\ UNCHANGED <<cfgVars, items, ctxDone>>
    /\ UNCHANGED <<poolVars, histVars>>
    /\ UNCHANGED <<callVars, idVars, helperVars>>

\* The caller calls Execute again on the same handler, with another slice and
\* a fresh context. Everything Execute allocated is local to the finished call
\* and gone; only the handler is kept. (A dispatcher that outlives its call
\* works on that call's own channel and context; it has finished here.)
NextCall ==
    /\ mainPc = "returned"
    /\ dispPc \in {"unspawned", "done"}
    /\ callNo < MaxCalls
    /\ callNo' = callNo + 1
    /\ mainPc' = "config"
    /\ items' \in UNION {[1..n -> Values] : n \in 0..MaxLen}
    /\ ctxDone' = FALSE
    /\ numWorkers' = 0
    /\ results' = <<>>
    /\ errs' = <<>>
    /\ jobs' = <<>>
    /\ jobsClosed' = FALSE
    /\ childCreated' = FALSE
    /\ childDone' = FALSE
    /\ dispPc' = "unspawned"
    /\ dispNext' = 1
    /\ idle' = 0
    /\ running' = EmptyBag
    /\ exited' = 0
    /\ output' = NilSlice
    /\ retErr' = <<>>
    /\ calls' = [i \in 1..Len(items') |-> 0]
    /\ sent' = [i \in 1..Len(items') |-> 0]
    /\ returnedErrs' = [i \in 1..Len(items') |-> NilErr]
    /\ ctxAtJoin' = FALSE
    /\ UNCHANGED <<cfgVars, setConc, setStop, idVars, helperVars>>

\* ------------------------------------------------------------- dispatcher
\* case jobs <- mapConcurrentJob[T]{index: i, value: item}
\* (the channel's capacity is len(items), so the send never blocks)
DispatchSend ==
    /\ dispPc = "loop"
    /\ dispNext <= Len(items)
    /\ Len(jobs) < JobsCapacity(Len(items))
    /\ jobs' = Append(jobs, MakeJob(dispNext, items[dispNext]))
    /\ sent' = [sent EXCEPT ![dispNext] = @ + 1]
    /\ dispNext' = dispNext + 1
    /\ UNCHANGED <<cfgVars, items, ctxDone, mainPc, childDone>>
    /\ UNCHANGED <<childCreated, numWorkers, results, errs, jobsClosed, dispPc, idle, running,
                   exited>>
    /\ UNCHANGED <<retVars, calls, returnedErrs, ctxAtJoin>>
    /\ UNCHANGED <<callVars, idVars, helperVars>>

\* case <-child.Done(): return   (then the deferred close(jobs))
DispatchObserveDone ==
    /\ dispPc = "loop"
    /\ dispNext <= Len(items)
    /\ childDone
    /\ dispPc' = "done"
    /\ jobsClosed' = DeferredClose(jobsClosed)
    /\ UNCHANGED <<cfgVars, items, ctxDone, mainPc, childDone>>
    /\ UNCHANGED <<childCreated, numWorkers, results, errs, jobs, dispNext, idle, running,
                   exited>>
    /\ UNCHANGED <<retVars, histVars>>
    /\ UNCHANGED <<callVars, idVars, helperVars>>

\* the range loop is over: the deferred close(jobs)
DispatchFinish ==
    /\ dispPc = "loop"
    /\ dispNext > Len(items)
    /\ dispPc' = "done"
    /\ jobsClosed' = DeferredClose(jobsClosed)
    /\ UNCHANGED <<cfgVars, items, ctxDone, mainPc, childDone>>
    /\ UNCHANGED <<childCreated, numWorkers, results, errs, jobs, dispNext, idle, running,
                   exited>>
    /\ UNCHANGED <<retVars, histVars>>
    /\ UNCHANGED <<callVars, idVars, helperVars>>

\* ---------------------------------------------------------------- workers
\* The workers are anonymous goroutines running the same closure; the only
\* thing a worker holds is the job it received, so the pool is described by
\* how many workers are at the select, which jobs are in flight, and how many
\* workers have returned.

\* case <-child.Done(): return
WorkerObserveDone ==
    /\ idle > 0
    /\ childDone
    /\ idle' = idle - 1
    /\ exited' = exited + 1
    /\ UNCHANGED <<cfgVars, items, ctxDone, mainPc, childDone>>
    /\ UNCHANGED <<childCreated, numWorkers, results, errs, jobs, jobsClosed, dispPc,
                   dispNext, running>>
    /\ UNCHANGED <<retVars, histVars>>
    /\ UNCHANGED <<callVars, idVars, helperVars>>

\* case item, ok := <-jobs with ok: mapFunc(ctx, item.value) is entered
WorkerReceive ==
    /\ idle > 0
    /\ jobs # <<>>
    /\ idle' = idle - 1
    /\ running' = running (+) SetToBag({Head(jobs)})
    /\ jobs' = Dequeue(jobs)
    /\ calls' = [calls EXCEPT ![Head(jobs).index] = @ + 1]
    /\ UNCHANGED <<cfgVars, items, ctxDone, mainPc, childDone>>
    /\ UNCHANGED <<childCreated, numWorkers, results, errs, jobsClosed, dispPc, dispNext,
                   exited>>
    /\ UNCHANGED <<retVars, sent, returnedErrs, ctxAtJoin>>
    /\ UNCHANGED <<callVars, idVars, helperVars>>

\* case item, ok := <-jobs with !ok: return
WorkerReceiveClosed ==
    /\ idle > 0
    /\ jobs = <<>>
    /\ jobsClosed
    /\ idle' = idle - 1
    /\ exited' = exited + 1
    /\ UNCHANGED <<cfgVars, items, ctxDone, mainPc, childDone>>
    /\ UNCHANGED <<childCreated, numWorkers, results, errs, jobs, jobsClosed, dispPc,
                   dispNext, running>>
    /\ UNCHANGED <<retVars, histVars>>
    /\ UNCHANGED <<callVars, idVars, helperVars>>

\* mapFunc returned (v, nil): results[item.index] = v, back to the select
WorkerSucceed(job) ==
    /\ BagIn(job, running)
    /\ job.value \notin fails
    /\ results' = RecordResult(results, job, MapFuncValue(job.value))
    /\ running' = running (-) SetToBag({job})
    /\ idle' = idle + 1
    /\ UNCHANGED <<cfgVars, items, ctxDone, mainPc, childDone>>
    /\ UNCHANGED <<childCreated, numWorkers, errs, jobs, jobsClosed, dispPc, dispNext,
                   exited>>
    /\ UNCHANGED <<retVars, histVars>>
    /\ UNCHANGED <<callVars, idVars, helperVars>>

\* mapFunc returned (_, err): errs[item.index] = err; under stopOnError
\* cancel() and return, otherwise back to the select
WorkerRecordFailure(job, e) ==
    /\ errs' = RecordError(errs, job, e)
    /\ returnedErrs' = [returnedErrs EXCEPT ![job.index] = e]
    /\ running' = running (-) SetToBag({job})
    /\ IF CancelsOnError(stopOnError)
       THEN /\ childDone' = TRUE
            /\ exited' = exited + 1
            /\ idle' = idle
       ELSE /\ childDone' = childDone
            /\ exited' = exited
            /\ idle' = idle + 1
    /\ UNCHANGED <<cfgVars, items, ctxDone, mainPc>>
    /\ UNCHANGED <<childCreated, numWorkers, results, jobs, jobsClosed, dispPc, dispNext>>
    /\ UNCHANGED <<retVars, calls, sent, ctxAtJoin>>
    /\ UNCHANGED <<callVars, idVars, helperVars>>

\* mapFunc fails on this element
WorkerFail(job) ==
    /\ BagIn(job, running)
    /\ job.value \in fails
    /\ WorkerRecordFailure(job, ElemErr(job.value))

\* mapFunc honours the context it was given (the caller's ctx) and returns
\* ctx.Err() because that context is done
WorkerCtxFail(job) ==
    /\ BagIn(job, running)
    /\ job.value \notin fails
    /\ MapFuncCtx(ctxDone, childDone)
    /\ WorkerRecordFailure(job, CtxErr(MapFuncCtx(ctxDone, childDone)))

\* the jobs a worker can hold
JobSpace == [index : 1..MaxLen, value : Values]

\* ------------------------------------------------------------------- Next
Next ==
    \/ \E n \in Concurrencies : WithConcurrency(n)
    \/ \E b \in BOOLEAN : WithStopOnError(b)
    \/ CancelAmbient
    \/ PropagateCancel
    \/ ExecuteEmpty
    \/ ExecutePanic
    \/ ExecuteStart
    \/ WaitDone
    \/ ExecuteReturn
    \/ NextCall
    \/ DispatchSend
    \/ DispatchObserveDone
    \/ DispatchFinish
    \/ WorkerObserveDone
    \/ WorkerReceive
    \/ WorkerReceiveClosed
    \/ \E job \in JobSpace : WorkerSucceed(job)
    \/ \E job \in JobSpace : WorkerFail(job)
    \/ \E job \in JobSpace : WorkerCtxFail(job)

Spec == Init /\ [][Next]_vars

\* the dispatcher goroutine (go func() { defer close(jobs); for ... })
Dispatcher == DispatchSend \/ DispatchObserveDone \/ DispatchFinish

\* the Go scheduler keeps running the dispatcher goroutine while it can take
\* a step; nothing is assumed about the workers or the caller
DispatcherFairSpec == Spec /\ WF_vars(Dispatcher)

\* a waiting worker's select: it leaves on the cancelled child context, or
\* takes a job, or leaves on the closed channel
WorkerSelect == WorkerObserveDone \/ WorkerReceive \/ WorkerReceiveClosed

\* an invocation of mapFunc returns, with a value or with an error
MapFuncReturns ==
    \E job \in JobSpace : WorkerSucceed(job) \/ WorkerFail(job) \/ WorkerCtxFail(job)

\* a step of a started call: of its dispatcher, of a worker at its select,
\* of an invocation of mapFunc returning, or of the caller at wg.Wait and at
\* the return
CallProgress ==
    Dispatcher \/ WorkerSelect \/ MapFuncReturns \/ WaitDone \/ ExecuteReturn

\* the configuration of a handler and one Execute call on it
CallNext ==
    \/ \E n \in Concurrencies : WithConcurrency(n)
    \/ \E b \in BOOLEAN : WithStopOnError(b)
    \/ CancelAmbient
    \/ PropagateCancel
    \/ ExecuteEmpty
    \/ ExecutePanic
    \/ ExecuteStart
    \/ WaitDone
    \/ ExecuteReturn
    \/ Dispatcher
    \/ WorkerSelect
    \/ MapFuncReturns

\* Fair scheduling of a call: while some goroutine of the call can take a
\* step, or an invocation of mapFunc is outstanding, one of them eventually
\* does. This is the weakest assumption the Go scheduler and returning
\* transforms justify (it is implied by fairness to every goroutine);
\* nothing is assumed about the caller's cancellation of ctx.
FairSpec == Init /\ [][CallNext]_vars /\ WF_vars(CallProgress)

\* A transform that holds its worker until every worker of the pool is in
\* its invocation (the instrumented mapFunc of TestMapConcurrentWorkerPool,
\* which holds the worker for a while), under a context that the caller
\* does not cancel: the steps of Next except CancelAmbient, PropagateCancel
\* and the failure on a cancelled context, mapFunc returning only while no
\* worker is idle.
HeldWorkerSucceed(job) == idle = 0 /\ WorkerSucceed(job)
HeldWorkerFail(job) == idle = 0 /\ WorkerFail(job)

HoldingNext ==
    \/ \E n \in Concurrencies : WithConcurrency(n)
    \/ \E b \in BOOLEAN : WithStopOnError(b)
    \/ ExecuteEmpty
    \/ ExecutePanic
    \/ ExecuteStart
    \/ WaitDone
    \/ ExecuteReturn
    \/ NextCall
    \/ DispatchSend
    \/ DispatchObserveDone
    \/ DispatchFinish
    \/ WorkerObserveDone
    \/ WorkerReceive
    \/ WorkerReceiveClosed
    \/ \E job \in JobSpace : HeldWorkerSucceed(job)
    \/ \E job \in JobSpace : HeldWorkerFail(job)

\* the Go scheduler keeps running the dispatcher goroutine and the workers
\* that wait at the select while they can take a step
HoldingFairSpec ==
    /\ Init
    /\ [][HoldingNext]_vars
    /\ WF_vars(DispatchSend)
    /\ WF_vars(WorkerReceive)

\* --------------------------------------------------------- type invariant
TypeOK ==
    /\ concurrency \in Concurrencies \cup {DefaultConcurrency}
    /\ stopOnError \in BOOLEAN
    /\ mainPc \in {"config", "waiting", "joined", "returned", "panicked"}
    /\ dispPc \in {"unspawned", "loop", "done"}
    /\ idle \in 0..MaxLen /\ exited \in 0..MaxLen
    /\ mainPc \in {"waiting", "joined", "returned"}
         => idle + BagCardinality(running) + exited = numWorkers
    /\ Len(jobs) <= Len(items)

\* ============================================================ package idx
\* Go strings are sequences of one-character strings. Errors are sequences
\* of message fragments: the error text is their concatenation, the nil
\* error is the empty sequence, and fmt.Errorf("prefix: %w", err) puts the
\* prefix in front of the fragments of err.
NoError == <<>>
ErrorNew(msg) == <<msg>>
ErrorWrap(prefix, err) == <<prefix>> \o err

\* the characters the explored strings are made of: a letter, a digit, the
\* separator and a blank; Type strings may also hold an underscore
Alphabet == {"a", "1", ":", " "}
TypeAlphabet == Alphabet \cup {"_"}

\* [a-zA-Z], [0-9] of typeRegex
Letters == {"a", "b", "c", "d", "e", "f", "g", "h", "i", "j", "k", "l", "m",
            "n", "o", "p", "q", "r", "s", "t", "u", "v", "w", "x", "y", "z",
            "A", "B", "C", "D", "E", "F", "G", "H", "I", "J", "K", "L", "M",
            "N", "O", "P", "Q", "R", "S", "T", "U", "V", "W", "X", "Y", "Z"}
Digits == {"0", "1", "2", "3", "4", "5", "6", "7", "8", "9"}
\* the white space strings.TrimSpace removes
WhiteSpace == {" ", "\t", "\n", "\r"}

\* len(str) > 32 in Type.Validate
TypeMaxLen == 32

\* a Go string is a sequence of bytes in UTF-8: the characters of Alphabet,
\* the letters and the digits take one byte each, the character U+00E9
\* (e with acute accent), written "U+00E9" here, takes two
ByteWidth(c) == IF c = "U+00E9" THEN 2 ELSE 1
\* len(s): the number of bytes of s
RECURSIVE ByteLen(_)
ByteLen(s) == IF s = <<>> THEN 0 ELSE ByteWidth(s[1]) + ByteLen(Tail(s))

\* all strings over the characters A of length at most n
Strings(A, n) == UNION {[1..k -> A] : k \in 0..n}
\* the string made of n times the character c
Rep(c, n) == [i \in 1..n |-> c]

\* the zero value ID{}
ZeroID == [env |-> <<>>, objectType |-> <<>>, objectID |-> <<>>]
\* ID{env: e, objectType: t, objectID: v}
MakeID(e, t, v) == [env |-> e, objectType |-> t, objectID |-> v]

\* strings.Contains(s, c) for a one-character c
Contains(s, c) == \E i \in 1..Len(s) : s[i] = c

\* strings.Split(s, ":"): the pieces between the separators, empty pieces
\* kept, so that a string with k separators yields k+1 pieces
RECURSIVE Split(_)
Split(s) ==
    IF ~Contains(s, ":") THEN <<s>>
    ELSE LET i == CHOOSE j \in 1..Len(s) :
                      s[j] = ":" /\ \A k \in 1..(j-1) : s[k] # ":"
         IN <<SubSeq(s, 1, i-1)>> \o Split(SubSeq(s, i+1, Len(s)))

\* typeRegex.MatchString(str): ^[a-zA-Z][a-zA-Z0-9_]*$
TypeRegexMatch(t) ==
    /\ Len(t) >= 1
    /\ t[1] \in Letters
    /\ \A i \in 1..Len(t) : t[i] \in Letters \cup Digits \cup {"_"}

\* func (t Type) Validate() error
TypeValidate(t) ==
    IF t = <<>> THEN ErrorNew("type cannot be empty")
    ELSE IF ByteLen(t) > TypeMaxLen
         THEN ErrorNew("type cannot be longer than 32 characters")
    ELSE IF Contains(t, ":") THEN ErrorNew("type cannot contain colons")
    ELSE IF ~TypeRegexMatch(t)
         THEN ErrorNew("type must start with a letter and contain only letters, numbers, and underscores")
    ELSE NoError

\* func ParseType(s string) (Type, error)
ParseType(s) ==
    LET err == TypeValidate(s)
    IN IF err # NoError THEN [t |-> <<>>, err |-> err]
       ELSE [t |-> s, err |-> NoError]

\* the production environment is written under its normalised name
StringNormalized(i) ==
    (IF i.env = <<"p", "r", "d">> THEN <<"v", "i", "b", "e">> ELSE i.env)
        \o <<":">> \o i.objectType \o <<":">> \o i.objectID

\* func (id ID) String() string: fmt.Sprintf("%s:%s:%s", ...)
String(i) == i.env \o <<":">> \o i.objectType \o <<":">> \o i.objectID

\* func ParseID(s string) (ID, error), with the empty object ID checked
\* before the type
ParseIDValueFirst(s) ==
    LET parts == Split(s)
    IN IF Len(parts) # 3
       THEN [id |-> ZeroID,
             err |-> <<"invalid ID format: expected 3 parts separated by colons, got ",
                       ToString(Len(parts)), " parts">>]
       ELSE IF parts[1] = <<>>
       THEN [id |-> ZeroID, err |-> ErrorNew("invalid ID: env cannot be empty")]
       ELSE IF parts[3] = <<>>
       THEN [id |-> ZeroID,
             err |-> ErrorNew("invalid ID: object ID cannot be empty")]
       ELSE IF ParseType(parts[2]).err # NoError
       THEN [id |-> ZeroID,
             err |-> ErrorWrap("invalid ID: ", ParseType(parts[2]).err)]
       ELSE [id |-> MakeID(parts[1], ParseType(parts[2]).t, parts[3]),
             err |-> NoError]

\* func ParseID(s string) (ID, error)
ParseID(s) ==
    LET parts == Split(s)
    IN IF Len(parts) # 3
       THEN [id |-> ZeroID,
             err |-> <<"invalid ID format: expected 3 parts separated by colons, got ",
                       ToString(Len(parts)), " parts">>]
       ELSE IF parts[1] = <<>>
       THEN [id |-> ZeroID, err |-> ErrorNew("invalid ID: env cannot be empty")]
       ELSE IF ParseType(parts[2]).err # NoError
       THEN [id |-> ZeroID,
             err |-> ErrorWrap("invalid ID: ", ParseType(parts[2]).err)]
       ELSE IF parts[3] = <<>>
       THEN [id |-> ZeroID,
             err |-> ErrorNew("invalid ID: object ID cannot be empty")]
       ELSE [id |-> MakeID(parts[1], ParseType(parts[2]).t, parts[3]),
             err |-> NoError]

\* func (id ID) Validate() error
IDValidate(i) ==
    IF i.env = <<>> THEN ErrorNew("env cannot be empty")
    ELSE IF TypeValidate(i.objectType) # NoError
         THEN ErrorWrap("invalid object type: ", TypeValidate(i.objectType))
    ELSE IF i.objectID = <<>> THEN ErrorNew("object ID cannot be empty")
    ELSE NoError

\* strings.TrimSpace(s)
RECURSIVE TrimSpace(_)
TrimSpace(s) ==
    IF s = <<>> THEN s
    ELSE IF s[1] \in WhiteSpace THEN TrimSpace(Tail(s))
    ELSE IF s[Len(s)] \in WhiteSpace THEN TrimSpace(SubSeq(s, 1, Len(s)-1))
    ELSE s

\* func normalizeEnvironment(env string) string, with "" and "prd" looked
\* for before the white space is trimmed
normalizeEnvironmentBeforeTrim(env) ==
    IF env = <<>> \/ env = <<"p", "r", "d">>
    THEN <<"v", "i", "b", "e">>
    ELSE TrimSpace(env)

\* func normalizeEnvironment(env string) string
normalizeEnvironment(env) ==
    LET trimmed == TrimSpace(env)
    IN IF trimmed = <<>> \/ trimmed = <<"p", "r", "d">>
       THEN <<"v", "i", "b", "e">>
       ELSE trimmed

\* func NewNamespace(environment string) Namespace
NewNamespace(environment) == [environment |-> normalizeEnvironment(environment)]

\* Namespace{}: the zero value of the exported struct type
ZeroNamespace == [environment |-> <<>>]

\* func (n Namespace) NewIDWithValue(objectType Type, value string) (ID, error),
\* with the empty value checked before the type
NewIDWithValueValueFirst(n, objectType, value) ==
    IF value = <<>>
    THEN [id |-> ZeroID, err |-> ErrorNew("value cannot be empty")]
    ELSE IF TypeValidate(objectType) # NoError
    THEN [id |-> ZeroID,
          err |-> ErrorWrap("invalid object type: ", TypeValidate(objectType))]
    ELSE [id |-> MakeID(n.environment, objectType, value), err |-> NoError]

\* func (n Namespace) NewIDWithValue(objectType Type, value string) (ID, error)
NewIDWithValue(n, objectType, value) ==
    IF TypeValidate(objectType) # NoError
    THEN [id |-> ZeroID,
          err |-> ErrorWrap("invalid object type: ", TypeValidate(objectType))]
    ELSE IF value = <<>>
    THEN [id |-> ZeroID, err |-> ErrorNew("value cannot be empty")]
    ELSE [id |-> MakeID(n.environment, objectType, value), err |-> NoError]

\* ----------------------------------------------------- inputs of package idx
\* the strings handed to ParseID: the short ones, and two whose second part
\* has exactly and more than 32 letters
ParseInputs == Strings(Alphabet, MaxStr)
                \cup {<<"a", ":">> \o Rep("a", TypeMaxLen) \o <<":", "a">>,
                      <<"a", ":">> \o Rep("a", TypeMaxLen + 1) \o <<":", "a">>}
                \cup {<<"p", "r", "d", ":", "a", ":", "a">>,
                      <<" ", "p", "r", "d", ":", "a", ":", "a">>}
\* environments: the short strings, and "prd" bare and with a blank in front
EnvInputs == Strings(Alphabet, MaxPart) \cup {<<"p", "r", "d">>, <<" ", "p", "r", "d">>}
\* types: the short strings, and one of exactly and one of more than 32 letters
TypeInputs == Strings(TypeAlphabet, MaxTypeStr)
                \cup {Rep("a", TypeMaxLen), Rep("a", TypeMaxLen + 1)}
\* values
ValueInputs == Strings(Alphabet, MaxPart)

\* ksuid.New().String(): a fresh string of 27 letters and digits; which one
\* is not determined by the caller
KsuidLen == 27
KsuidStrings ==
    {Rep("a", KsuidLen), Rep("1", KsuidLen), <<"1">> \o Rep("a", KsuidLen - 1)}

\* further types handed to Type.Validate and ParseType alone: capital
\* letters, strings of more than 32 characters that break a later rule as
\* well, and strings of two-byte characters of 2, 32 and 34 bytes
MoreTypeInputs ==
    {<<"Z">>, <<"Z", "z">>, <<"a", "Z", "_", "9">>, <<"_", "a">>, <<"a", "-">>,
     <<":">> \o Rep("a", TypeMaxLen), <<"1">> \o Rep("a", TypeMaxLen),
     Rep("a", TypeMaxLen - 1) \o <<":">>, Rep("a", TypeMaxLen - 1) \o <<"_">>,
     <<"U+00E9">>, Rep("U+00E9", 16), Rep("U+00E9", 17)}
\* further environments handed to NewNamespace alone: "prd" and other names
\* with white space around them
MoreEnvInputs ==
    {<<"p", "r", "d", " ">>, <<"\t", "p", "r", "d", "\n">>,
     <<"p", "r", " ", "d">>, <<"p", "r", "d", "1">>, <<"P", "R", "D">>,
     <<"\t", " ", "\n">>, <<" ", "a", " ", "a", " ">>,
     <<"v", "i", "b", "e">>}

\* a caller of package idx holds either a string to parse, or an
\* environment, a type and a value to build an ID from: through a Namespace
\* ("new") or, inside the package, as a struct literal ("literal")
IdInit ==
    /\ ExecInit
    /\ fails = {}
    /\ items = <<>>
    /\ \/ /\ idOp = "parse"
          /\ argS \in ParseInputs
          /\ argEnv = <<>> /\ argType = <<>> /\ argValue = <<>>
       \/ /\ idOp \in {"new", "literal"}
          /\ argS = <<>>
          /\ argEnv \in EnvInputs
          /\ argType \in TypeInputs
          /\ argValue \in ValueInputs
       \/ /\ idOp = "newid"
          /\ argS = <<>>
          /\ argEnv \in EnvInputs
          /\ argType \in TypeInputs
          /\ argValue = <<>>
       \/ /\ idOp = "zerons"
          /\ argS = <<>>
          /\ argEnv = <<>>
          /\ argType \in TypeInputs
          /\ argValue \in ValueInputs
       \/ /\ idOp = "type"
          /\ argType \in TypeInputs \cup MoreTypeInputs
          /\ argS = <<>> /\ argEnv = <<>> /\ argValue = <<>>
       \/ /\ idOp = "namespace"
          /\ argEnv \in EnvInputs \cup MoreEnvInputs
          /\ argS = <<>> /\ argType = <<>> /\ argValue = <<>>
    /\ idPc = "input"
    /\ id = ZeroID
    /\ idErr = NoError
    /\ str = <<>>
    /\ parsed = ZeroID
    /\ parsedErr = NoError
    /\ ns = [environment |-> <<>>]
    /\ valErr = NoError
    /\ idValErr = NoError
    /\ typ = <<>>
    /\ typErr = NoError
    /\ HelperOff

\* id, err := ParseID(s)
CallParseID ==
    /\ idPc = "input" /\ idOp = "parse"
    /\ id' = ParseID(argS).id
    /\ idErr' = ParseID(argS).err
    /\ idPc' = "made"
    /\ UNCHANGED <<idArgs, str, parsed, parsedErr, ns, typeVars, idValErr, execVars, helperVars>>

\* id, err := NewNamespace(environment).NewIDWithValue(objectType, value)
CallNewIDWithValue ==
    /\ idPc = "input" /\ idOp = "new"
    /\ ns' = NewNamespace(argEnv)
    /\ LET r == NewIDWithValue(ns', argType, argValue)
       IN id' = r.id /\ idErr' = r.err
    /\ idPc' = "made"
    /\ UNCHANGED <<idArgs, str, parsed, parsedErr, typeVars, idValErr, execVars, helperVars>>

\* id := ID{env: environment, objectType: objectType, objectID: value}
\* n.NewID(objectType), value being the string of the generated ksuid
NewID(n, objectType, value) == NewIDWithValue(n, objectType, value)

CallNewID ==
    /\ idPc = "input" /\ idOp = "newid"
    /\ ns' = NewNamespace(argEnv)
    /\ \E value \in KsuidStrings :
         LET r == NewID(ns', argType, value)
         IN id' = r.id /\ idErr' = r.err
    /\ idPc' = "made"
    /\ UNCHANGED <<idArgs, str, parsed, parsedErr, typeVars, idValErr, execVars, helperVars>>

\* NewIDWithValue called on a Namespace that no NewNamespace built
CallOnZeroNamespace ==
    /\ idPc = "input" /\ idOp = "zerons"
    /\ ns' = ZeroNamespace
    /\ LET r == NewIDWithValue(ns', argType, argValue)
       IN id' = r.id /\ idErr' = r.err
    /\ idPc' = "made"
    /\ UNCHANGED <<idArgs, str, parsed, parsedErr, typeVars, idValErr, execVars, helperVars>>

\* id.Validate() on the ID obtained
CallIDValidate ==
    /\ idPc = "made"
    /\ idValErr' = IDValidate(id)
    /\ idPc' = "checked"
    /\ UNCHANGED <<idArgs, id, idErr, str, parsed, parsedErr, ns, typeVars,
                   execVars, helperVars>>

MakeLiteral ==
    /\ idPc = "input" /\ idOp = "literal"
    /\ id' = MakeID(argEnv, argType, argValue)
    /\ idErr' = NoError
    /\ idPc' = "made"
    /\ UNCHANGED <<idArgs, str, parsed, parsedErr, ns, typeVars, idValErr, execVars, helperVars>>

\* str := id.String()
CallString ==
    /\ idPc = "made"
    /\ str' = String(id)
    /\ idPc' = "serialised"
    /\ UNCHANGED <<idArgs, id, idErr, parsed, parsedErr, ns, typeVars, idValErr, execVars, helperVars>>

\* parsed, parsedErr := ParseID(str)
CallReparse ==
    /\ idPc = "serialised"
    /\ parsed' = ParseID(str).id
    /\ parsedErr' = ParseID(str).err
    /\ idPc' = "reparsed"
    /\ UNCHANGED <<idArgs, id, idErr, str, ns, typeVars, idValErr, execVars, helperVars>>

\* err := Type(s).Validate()
CallTypeValidate ==
    /\ idPc = "input" /\ idOp = "type"
    /\ valErr' = TypeValidate(argType)
    /\ idPc' = "validated"
    /\ UNCHANGED <<idArgs, id, idErr, str, parsed, parsedErr, ns, typ, typErr,
                   idValErr, execVars, helperVars>>

\* t, err := ParseType(s)
CallParseType ==
    /\ idPc = "validated"
    /\ typ' = ParseType(argType).t
    /\ typErr' = ParseType(argType).err
    /\ idPc' = "typed"
    /\ UNCHANGED <<idArgs, id, idErr, str, parsed, parsedErr, ns, valErr,
                   idValErr, execVars, helperVars>>

\* ns := NewNamespace(environment)
CallNewNamespace ==
    /\ idPc = "input" /\ idOp = "namespace"
    /\ ns' = NewNamespace(argEnv)
    /\ idPc' = "named"
    /\ UNCHANGED <<idArgs, id, idErr, str, parsed, parsedErr, typeVars,
                   idValErr, execVars, helperVars>>

IdNext ==
    \/ CallTypeValidate
    \/ CallParseType
    \/ CallNewNamespace
    \/ CallParseID
    \/ CallNewIDWithValue
    \/ CallNewID
    \/ CallOnZeroNamespace
    \/ CallIDValidate
    \/ MakeLiteral
    \/ CallString
    \/ CallReparse

IdSpec == IdInit /\ [][IdNext]_vars

\* ========================================================== slice helpers
\* A slice is a header (arr, len, cap) over a backing array of the heap;
\* arr = 0 is the nil slice. An array holds cap elements, the ones past len
\* being zero values until an append writes them.
Elems == 0..MaxElem
\* the zero value of the element type (var zero T)
Zero == 0
\* the nil slice
NilHeader == [arr |-> 0, len |-> 0, cap |-> 0]
\* a nil map; make(map[K][]T)
NilMap == [isNil |-> TRUE, m |-> <<>>]
EmptyMap == [isNil |-> FALSE, m |-> <<>>]

\* the elements of the slice hdr in the heap h
Contents(h, hdr) == IF hdr.arr = 0 THEN <<>> ELSE SubSeq(h[hdr.arr], 1, hdr.len)

\* make([]T, n, c): a fresh array of c zero values and a slice of its
\* first n elements
MakeArray(h, c) == Append(h, [k \in 1..c |-> Zero])
\* result := slice[:0] instead of make: a slice over the argument's array
MakeSliceOverInput(h, n, c) ==
    IF Len(h) >= 1 /\ Len(h[1]) >= c
    THEN [arr |-> 1, len |-> n, cap |-> c]
    ELSE [arr |-> Len(h) + 1, len |-> n, cap |-> c]

\* make([]T, n, c) that yields the nil slice when c is 0
MakeSliceNilWhenEmpty(h, n, c) ==
    IF c = 0 THEN [arr |-> 0, len |-> 0, cap |-> 0]
    ELSE [arr |-> Len(h) + 1, len |-> n, cap |-> c]

MakeSlice(h, n, c) == [arr |-> Len(h) + 1, len |-> n, cap |-> c]

\* !seen[item] that holds for every item
NotSeenAlways(seenKeys, item) == TRUE

\* !seen[item]
NotSeen(seenKeys, item) == item \notin seenKeys

\* result[i] = v, written from the far end
StoreAtReversed(h, hdr, i, v) == [h EXCEPT ![hdr.arr][hdr.len + 1 - i] = v]

\* result[i] = v
StoreAt(h, hdr, i, v) == [h EXCEPT ![hdr.arr][i] = v]

\* the capacity append grows a full slice of capacity c to
GrowCap(c) == IF c = 0 THEN 1 ELSE 2 * c

\* append(hdr, item): in place while there is capacity, else into a fresh
\* array of grown capacity that receives a copy of the elements
AppendHeap(h, hdr, item) ==
    IF hdr.len < hdr.cap
    THEN [h EXCEPT ![hdr.arr][hdr.len + 1] = item]
    ELSE Append(h, [k \in 1..GrowCap(hdr.cap) |->
                      IF k <= hdr.len THEN h[hdr.arr][k]
                      ELSE IF k = hdr.len + 1 THEN item ELSE Zero])
AppendHeader(h, hdr, item) ==
    IF hdr.len < hdr.cap
    THEN [hdr EXCEPT !.len = hdr.len + 1]
    ELSE [arr |-> Len(h) + 1, len |-> hdr.len + 1, cap |-> GrowCap(hdr.cap)]

\* the fn handed to Map (an injective function that moves every value)
MapFn(v) == 10 * v + 1
\* the keyFn handed to Group (TestGroup: even / odd)
KeyFn(v) == IF v % 2 = 0 THEN "even" ELSE "odd"

\* result[key] that always yields the nil slice
MapGetNil(g, key) == [arr |-> 0, len |-> 0, cap |-> 0]

\* result[key] of a Go map: the nil slice for a missing key
MapGet(g, key) == IF key \in DOMAIN g.m THEN g.m[key] ELSE NilHeader
\* result[key] = hdr
MapPut(g, key, hdr) ==
    [isNil |-> FALSE,
     m |-> [k \in DOMAIN g.m \cup {key} |-> IF k = key THEN hdr ELSE g.m[k]]]

\* the caller holds a slice: nil, or an array of up to MaxItems elements
\* with no or one spare element of capacity, and calls one helper on it
HelperInit ==
    /\ ExecInit
    /\ fails = {}
    /\ items = <<>>
    /\ IdOff
    /\ hOp \in {"Unique", "FilterNonZero", "Map", "Group"}
    /\ hPc = "call"
    /\ \/ heap = <<>> /\ slice = NilHeader
       \/ \E n \in 0..MaxItems, spare \in 0..1 :
             /\ heap \in {<<a \o [k \in 1..spare |-> Zero]>> : a \in [1..n -> Elems]}
             /\ slice = [arr |-> 1, len |-> n, cap |-> n + spare]
    /\ hI = 1
    /\ seen = {}
    /\ result = NilHeader
    /\ groups = NilMap
    /\ fnCalls = <<>>
    /\ slice0 = Contents(heap, slice)

\* ----------------------------------------------------------------- Unique
\* if len(slice) == 0 { return nil }; seen := make(map[T]bool);
\* result := make([]T, 0, len(slice))
UniqueStart ==
    /\ hOp = "Unique" /\ hPc = "call"
    /\ IF slice.len = 0
       THEN hPc' = "returned" /\ UNCHANGED <<heap, result>>
       ELSE /\ hPc' = "loop"
            /\ heap' = MakeArray(heap, slice.len)
            /\ result' = MakeSlice(heap, 0, slice.len)
    /\ UNCHANGED <<hOp, slice, hI, seen, groups, fnCalls, slice0>>
    /\ UNCHANGED <<execVars, idVars>>

\* one iteration of: for _, item := range slice { if !seen[item] { ... } }
UniqueStep ==
    /\ hOp = "Unique" /\ hPc = "loop" /\ hI <= slice.len
    /\ LET item == heap[slice.arr][hI]
       IN IF NotSeen(seen, item)
          THEN /\ seen' = seen \cup {item}
               /\ heap' = AppendHeap(heap, result, item)
               /\ result' = AppendHeader(heap, result, item)
          ELSE UNCHANGED <<seen, heap, result>>
    /\ hI' = hI + 1
    /\ UNCHANGED <<hOp, hPc, slice, groups, fnCalls, slice0>>
    /\ UNCHANGED <<execVars, idVars>>

\* ---------------------------------------------------------- FilterNonZero
\* var zero T; result := make([]T, 0, len(slice))
FilterNonZeroStart ==
    /\ hOp = "FilterNonZero" /\ hPc = "call"
    /\ hPc' = "loop"
    /\ heap' = MakeArray(heap, slice.len)
    /\ result' = MakeSlice(heap, 0, slice.len)
    /\ UNCHANGED <<hOp, slice, hI, seen, groups, fnCalls, slice0>>
    /\ UNCHANGED <<execVars, idVars>>

\* one iteration of: for _, item := range slice { if item != zero { ... } }
FilterNonZeroStep ==
    /\ hOp = "FilterNonZero" /\ hPc = "loop" /\ hI <= slice.len
    /\ LET item == heap[slice.arr][hI]
       IN IF item # Zero
          THEN /\ heap' = AppendHeap(heap, result, item)
               /\ result' = AppendHeader(heap, result, item)
          ELSE UNCHANGED <<heap, result>>
    /\ hI' = hI + 1
    /\ UNCHANGED <<hOp, hPc, slice, seen, groups, fnCalls, slice0>>
    /\ UNCHANGED <<execVars, idVars>>

\* -------------------------------------------------------------------- Map
\* if len(slice) == 0 { return nil }; result := make([]R, len(slice))
MapStart ==
    /\ hOp = "Map" /\ hPc = "call"
    /\ IF slice.len = 0
       THEN hPc' = "returned" /\ UNCHANGED <<heap, result>>
       ELSE /\ hPc' = "loop"
            /\ heap' = MakeArray(heap, slice.len)
            /\ result' = MakeSlice(heap, slice.len, slice.len)
    /\ UNCHANGED <<hOp, slice, hI, seen, groups, fnCalls, slice0>>
    /\ UNCHANGED <<execVars, idVars>>

\* one iteration of: for i, item := range slice { result[i] = fn(item) }
MapStep ==
    /\ hOp = "Map" /\ hPc = "loop" /\ hI <= slice.len
    /\ LET item == heap[slice.arr][hI]
       IN /\ fnCalls' = Append(fnCalls, item)
          /\ heap' = StoreAt(heap, result, hI, MapFn(item))
    /\ hI' = hI + 1
    /\ UNCHANGED <<hOp, hPc, slice, seen, result, groups, slice0>>
    /\ UNCHANGED <<execVars, idVars>>

\* ------------------------------------------------------------------ Group
\* result := make(map[K][]T)
GroupStart ==
    /\ hOp = "Group" /\ hPc = "call"
    /\ hPc' = "loop"
    /\ groups' = EmptyMap
    /\ UNCHANGED <<hOp, heap, slice, hI, seen, result, fnCalls, slice0>>
    /\ UNCHANGED <<execVars, idVars>>

\* one iteration of: for _, item := range slice {
\*     key := keyFn(item); result[key] = append(result[key], item) }
GroupStep ==
    /\ hOp = "Group" /\ hPc = "loop" /\ hI <= slice.len
    /\ LET item == heap[slice.arr][hI]
           key == KeyFn(item)
       IN /\ fnCalls' = Append(fnCalls, item)
          /\ heap' = AppendHeap(heap, MapGet(groups, key), item)
          /\ groups' = MapPut(groups, key,
                               AppendHeader(heap, MapGet(groups, key), item))
    /\ hI' = hI + 1
    /\ UNCHANGED <<hOp, hPc, slice, seen, result, slice0>>
    /\ UNCHANGED <<execVars, idVars>>

\* the range loop is over: return result
HelperReturn ==
    /\ hPc = "loop" /\ hI > slice.len
    /\ hPc' = "returned"
    /\ UNCHANGED <<hOp, heap, slice, hI, seen, result, groups, fnCalls, slice0>>
    /\ UNCHANGED <<execVars, idVars>>

HelperNext ==
    \/ UniqueStart
    \/ UniqueStep
    \/ FilterNonZeroStart
    \/ FilterNonZeroStep
    \/ MapStart
    \/ MapStep
    \/ GroupStart
    \/ GroupStep
    \/ HelperReturn

HelperSpec == HelperInit /\ [][HelperNext]_vars

\* every function of package slicex that takes a slice: a behaviour is
\* either a run of a helper or a run of the handler
SlicexNext == (hPc = "off" /\ Next) \/ HelperNext
SlicexSpec == (Init \/ HelperInit) /\ [][SlicexNext]_vars

\* ------------------------------------------------- vocabulary of the claims
Min(a, b) == IF a < b THEN a ELSE b

\* Execute has returned to its caller
Returned == mainPc = "returned"

\* the slice passed to Execute is not empty
NonEmpty == Len(items) > 0

\* the configured concurrency satisfies Execute's contract (concurrency >= 1)
ValidConcurrency == concurrency >= 1

\* the indices of the input
Indices == 1..Len(items)

\* the input indices whose element makes mapFunc fail
FailingIndices == {i \in Indices : items[i] \in fails}

\* the indices for which a mapFunc invocation returned an error
FailedIndices == {i \in Indices : returnedErrs[i] # NilErr}

\* what an order-preserving map of the whole input yields
Expected == [i \in Indices |-> MapFuncValue(items[i])]

\* number of mapFunc invocations in flight
InFlight == BagCardinality(running)

\* number of positions of the sequence s that hold e
Count(s, e) == Cardinality({k \in 1..Len(s) : s[k] = e})

\* ------------------------------------------------------------------ claims

\* C1: for a non-empty input, a concurrency setting allowed by Execute's
\* contract (concurrency >= 1), a mapFunc that fails on no element of the
\* input and a caller context that is never cancelled, Execute returns a nil
\* error and a slice of the input's length with output[i] = mapFunc(items[i])
\* for every i, whatever the interleaving of the workers.
C1_OrderedOutput ==
    (Returned /\ NonEmpty /\ ValidConcurrency /\ FailingIndices = {} /\ ~ctxDone)
        => /\ retErr = <<>>
           /\ ~output.isNil
           /\ Len(output.elems) = Len(items)
           /\ \A i \in Indices : output.elems[i] = MapFuncValue(items[i])

\* two workers, two different elements, everything mapped and returned
C1_Witness ==
    /\ Returned /\ Len(items) >= 2 /\ numWorkers >= 2
    /\ items[1] # items[2]
    /\ FailingIndices = {} /\ ~ctxDone
    /\ output = Slice(Expected)
    /\ retErr = <<>>

\* C2: in every state of an Execute call, the number of mapFunc invocations
\* in flight is at most min(configured concurrency, input length). (Stated
\* for a concurrency that is not negative: with a negative one the minimum is
\* negative, and Execute starts no invocation at all.)
C2_BoundedInFlight ==
    concurrency >= 0 => InFlight <= Min(concurrency, Len(items))

\* the pool is capped by the concurrency (below the input length) and full
C2_Witness ==
    /\ mainPc = "waiting"
    /\ concurrency < Len(items)
    /\ InFlight = concurrency
    /\ InFlight >= 1

\* the pool is capped by the input length (below the concurrency) and full
C2_WitnessShortInput ==
    /\ mainPc = "waiting"
    /\ Len(items) < concurrency
    /\ InFlight = Len(items)

\* C3: Execute returns either the complete output with a nil error, or a nil
\* output with a non-nil error, never a partially filled output; when a
\* mapFunc invocation returned an error, or the caller's context was done when
\* the last worker exited, it is the nil output with the non-nil error.
\* (Completeness of a non-nil output is stated for the concurrency settings
\* Execute's contract allows, concurrency >= 1.)
C3_AllOrNothing ==
    Returned =>
        /\ \/ retErr = <<>> /\ (NonEmpty => ~output.isNil)
           \/ retErr # <<>> /\ output.isNil
        /\ (FailedIndices # {} \/ ctxAtJoin) => (output.isNil /\ retErr # <<>>)
        /\ (ValidConcurrency /\ ~output.isNil) => output.elems = Expected

\* some elements were mapped, one failed, and the output is withheld
C3_Witness ==
    /\ Returned
    /\ FailedIndices # {}
    /\ \E i \in Indices : results[i] # ZeroR
    /\ output.isNil
    /\ retErr # <<>>

\* C4: under stop-on-error (and a concurrency >= 1, as Execute's contract
\* requires), when mapFunc fails on exactly one element of the input and the
\* caller's context is never cancelled, Execute returns a nil output and an
\* error made of exactly that element's failure: its text is the failure's
\* text, with nothing added.
C4_SingleFailure ==
    \A i \in Indices :
        (Returned /\ stopOnError /\ ValidConcurrency /\ ~ctxDone
                  /\ FailingIndices = {i})
            => /\ output.isNil
               /\ retErr = <<ElemErr(items[i])>>
               /\ JoinText(retErr) = <<ErrText(ElemErr(items[i]))>>

\* the failing element is the last of three, other elements were mapped
C4_Witness ==
    /\ Returned /\ stopOnError /\ ~ctxDone
    /\ Len(items) >= 2
    /\ FailingIndices = {Len(items)}
    /\ results[1] # ZeroR
    /\ output.isNil
    /\ retErr = <<ElemErr(items[Len(items)])>>

\* C5: no error is dropped: under either policy every error returned by a
\* mapFunc invocation is in the error Execute returns, each as often as it was
\* returned; under collect-all with k failing elements that is all k failures.
C5_NoErrorDropped ==
    Returned =>
        /\ \A i \in FailedIndices :
              Count(retErr, returnedErrs[i])
                  >= Cardinality({j \in FailedIndices :
                                     returnedErrs[j] = returnedErrs[i]})
        /\ (~stopOnError /\ ValidConcurrency /\ ~ctxDone)
              => Len(retErr) = Cardinality(FailingIndices)

\* collect-all, two elements failed, both failures are returned
C5_Witness ==
    /\ Returned /\ ~stopOnError
    /\ Cardinality(FailedIndices) >= 2
    /\ Len(retErr) >= 2
    /\ \A i \in FailedIndices : Count(retErr, returnedErrs[i]) >= 1

\* C6: under collect-all with concurrency >= 1 and a caller context that is
\* never cancelled, mapFunc has been invoked exactly once for every input
\* element when Execute returns, however many invocations failed.
C6_CollectAllRunsEveryJob ==
    (Returned /\ ~stopOnError /\ ValidConcurrency /\ ~ctxDone)
        => \A i \in Indices : calls[i] = 1

\* the first element failed and the later ones were still invoked
C6_Witness ==
    /\ Returned /\ ~stopOnError /\ ~ctxDone
    /\ Len(items) >= 2
    /\ 1 \in FailedIndices
    /\ \A i \in Indices : calls[i] = 1

\* C7: if the caller's context is done before the last worker of an Execute
\* call has exited, then under either policy Execute returns a nil output and
\* an error that includes the caller's context error (besides the context
\* errors that mapFunc invocations may have returned themselves).
C7_AmbientCancelReported ==
    (Returned /\ ctxAtJoin)
        => /\ output.isNil
           /\ Count(retErr, CtxCanceled)
                = Cardinality({i \in FailedIndices :
                                  returnedErrs[i] = CtxCanceled}) + 1

\* collect-all, the context expired mid-run, after an element was mapped
C7_Witness ==
    /\ Returned /\ ctxAtJoin /\ ~stopOnError
    /\ \E i \in Indices : results[i] # ZeroR
    /\ FailedIndices = {}
    /\ output.isNil
    /\ retErr = <<CtxCanceled>>

\* stop-on-error, the context expired mid-run, after an element was mapped
C7_WitnessStop ==
    /\ Returned /\ ctxAtJoin /\ stopOnError
    /\ \E i \in Indices : results[i] # ZeroR
    /\ output.isNil
    /\ Count(retErr, CtxCanceled) >= 1

\* C8: under stop-on-error, once a mapFunc invocation has failed and the
\* coordination context is cancelled, no worker starts a new mapFunc
\* invocation: the workers waiting at the select observe the cancellation and
\* exit without taking a job.
C8_NoNewWorkAfterCancel ==
    [][(mainPc = "waiting" /\ stopOnError /\ childDone /\ FailedIndices # {})
          => calls' = calls]_vars

\* C9: once the coordination context is cancelled (by a stop-on-error failure
\* or by the caller's context, under either policy) the dispatcher submits no
\* further job to the job channel.
C9_NoDispatchAfterCancel ==
    [][(mainPc = "waiting" /\ childDone) => sent' = sent]_vars

\* C10: every input index is placed in at most one job, every job is received
\* by at most one worker, so mapFunc is invoked at most once per element; an
\* element whose job was never dispatched or never picked up is not retried
\* and leaves its result slot and its error slot unset.
C10_AtMostOnce ==
    \A i \in Indices :
        /\ sent[i] <= 1
        /\ calls[i] <= sent[i]
        /\ Count(jobs, MakeJob(i, items[i])) + calls[i] = sent[i]
        /\ (results # <<>> /\ calls[i] = 0)
              => (results[i] = ZeroR /\ errs[i] = NilErr)

\* Execute returned after a cancellation: one element was mapped, one job
\* was dispatched but never picked up, one element was never dispatched
C10_Witness ==
    /\ Returned
    /\ \E i \in Indices : calls[i] = 1
    /\ \E i \in Indices : sent[i] = 1 /\ calls[i] = 0
    /\ \E i \in Indices : sent[i] = 0 /\ results[i] = ZeroR
                               /\ errs[i] = NilErr

\* slot i of results or of errs differs between the two states of a step
SlotWritten(i) == results'[i] # results[i] \/ errs'[i] # errs[i]

\* C11: for every index i, in every state of an Execute call, result slot i
\* and error slot i are never both populated; a slot is written only while
\* both slots of its index are still unset (so each is written at most once
\* and never overwritten), and only by the one worker that holds job i, which
\* thereby finishes that job.
C11_SlotsWrittenOnce ==
    /\ [](\A i \in 1..Len(results) :
             ~(results[i] # ZeroR /\ errs[i] # NilErr))
    /\ [][mainPc = "waiting" =>
            /\ errs'[Len(items) + 1] = errs[Len(items) + 1]
            /\ \A i \in Indices :
                 SlotWritten(i) =>
                    /\ results[i] = ZeroR /\ errs[i] = NilErr
                    /\ calls[i] = 1
                    /\ BagIn(MakeJob(i, items[i]), running)
                    /\ ~BagIn(MakeJob(i, items[i]), running')
                    /\ \A j \in Indices \ {i} : ~SlotWritten(j)]_vars

\* while the pool is still at work, one slot holds a result and another
\* index holds an error
C11_Witness ==
    /\ mainPc = "waiting"
    /\ InFlight >= 1
    /\ \E i, j \in Indices :
          /\ i # j
          /\ results[i] # ZeroR /\ errs[i] = NilErr
          /\ errs[j] # NilErr /\ results[j] = ZeroR

\* C12: Execute never returns while a mapFunc invocation is in flight: when
\* wg.Wait has returned every spawned worker has exited, and every invocation
\* that was started, also one that was running when a stop-on-error or ambient
\* cancellation happened, has stored its outcome in its slot before the
\* aggregated result is computed.
C12_ReturnsAfterWorkers ==
    (mainPc \in {"joined", "returned"}) =>
        /\ InFlight = 0
        /\ idle = 0
        /\ exited = numWorkers
        /\ \A i \in Indices :
              calls[i] >= 1 => (results[i] # ZeroR \/ errs[i] # NilErr)

\* stop-on-error: an element failed while another invocation was running;
\* that one finished and stored its result before Execute returned
C12_Witness ==
    /\ Returned /\ stopOnError /\ ~ctxDone
    /\ numWorkers >= 2
    /\ 1 \in FailedIndices
    /\ \E i \in Indices : i > 1 /\ calls[i] = 1 /\ results[i] # ZeroR
    /\ InFlight = 0

\* C13: the dispatcher never blocks on a submission: the job channel has room
\* for len(items) jobs, so as long as an item is left the send can complete at
\* once whatever the workers do; and a started dispatcher always terminates
\* and closes the job channel, also when every worker has stopped consuming.
C13_DispatcherNeverBlocks ==
    /\ []((dispPc = "loop" /\ dispNext <= Len(items))
            => (Len(jobs) < Len(items) /\ ENABLED DispatchSend))
    /\ (dispPc = "loop") ~> (dispPc = "done" /\ jobsClosed)

\* every worker has left after a failure, nobody consumes any more, and the
\* dispatcher still submitted the last job and closed the channel
C13_Witness ==
    /\ dispPc = "done" /\ jobsClosed
    /\ numWorkers >= 1 /\ exited = numWorkers
    /\ FailedIndices # {}
    /\ Len(items) >= 2
    /\ sent[Len(items)] = 1 /\ calls[Len(items)] = 0
    /\ jobs # <<>>

\* C14: every mapFunc invocation is handed the caller's context, not the
\* coordination context: an in-flight invocation can see its context done
\* exactly when the caller's context is done, and whenever an invocation
\* returned a context error the caller's context was done; a cancellation of
\* the coordination context by a stop-on-error failure is not visible to it.
C14_TransformSeesAmbientCtx ==
    /\ \A i \in Indices : returnedErrs[i] = CtxCanceled => ctxDone
    /\ \A job \in BagToSet(running) :
          job.value \notin fails => (ENABLED WorkerCtxFail(job) <=> ctxDone)

\* a stop-on-error failure cancelled the coordination context while another
\* invocation is in flight and the caller's context is not cancelled
C14_Witness ==
    /\ mainPc = "waiting" /\ stopOnError
    /\ childDone /\ ~ctxDone
    /\ FailedIndices # {}
    /\ \E job \in BagToSet(running) :
          job.value \notin fails /\ ~ENABLED WorkerCtxFail(job)

\* C15: Execute on an empty input returns a nil output and a nil error,
\* invokes mapFunc zero times, and starts no worker, no dispatcher and no
\* coordination context (whatever the configuration and the caller's context).
C15_EmptyInput ==
    (Returned /\ Len(items) = 0) =>
        /\ output.isNil /\ output.elems = <<>>
        /\ retErr = <<>>
        /\ \A i \in DOMAIN calls : calls[i] = 0
        /\ numWorkers = 0 /\ idle = 0 /\ exited = 0 /\ running = EmptyBag
        /\ dispPc = "unspawned" /\ jobs = <<>> /\ ~jobsClosed
        /\ ~childCreated /\ ~childDone

\* an empty input, with a cancelled context and an invalid concurrency
C15_Witness ==
    /\ Returned /\ Len(items) = 0
    /\ ctxDone /\ concurrency < 1
    /\ output = NilSlice /\ retErr = <<>>

\* C16: on every exit path of Execute for a non-empty input (success,
\* mapFunc failure under either policy, cancellation of the caller's context,
\* and the panic of wg.Add) the coordination context has been created and is
\* cancelled by the time Execute is left.
C16_ChildReleased ==
    (mainPc \in {"returned", "panicked"} /\ NonEmpty)
        => (childCreated /\ childDone)

\* the success path: nothing but the deferred cancel() released the context
C16_Witness ==
    /\ Returned /\ NonEmpty
    /\ ~ctxDone /\ FailedIndices = {}
    /\ retErr = <<>> /\ ~output.isNil
    /\ childDone

\* the configuration the caller asked for: the argument of the last call of
\* each setter, or MapConcurrent's default when the setter was never called
ConfiguredConcurrency ==
    IF setConc = <<>> THEN DefaultConcurrency ELSE setConc[1]

ConfiguredStopOnError == IF setStop = <<>> THEN TRUE ELSE setStop[1]

\* the errors of the current call's mapFunc invocations, in index order
ReturnedErrSeq == [i \in Indices |-> returnedErrs[i]]

\* C17: Execute keeps no state between calls and does not modify the handler:
\* no step of Execute changes concurrency, stopOnError or mapFunc, so in every
\* call, the first or a later one on the same handler, the handler holds what
\* the caller configured, the pool is sized from that configuration and this
\* call's input, and the returned error and output are made of the outcomes
\* of this call's own invocations and this call's context only.
C17_NoStateBetweenCalls ==
    /\ [][(mainPc # "config" \/ mainPc' # "config") => UNCHANGED cfgVars]_vars
    /\ [](mainPc # "config" =>
            /\ concurrency = ConfiguredConcurrency
            /\ stopOnError = ConfiguredStopOnError)
    /\ []((mainPc \in {"waiting", "joined", "returned"} /\ NonEmpty) =>
            numWorkers = Min(ConfiguredConcurrency, Len(items)))
    /\ []((Returned /\ NonEmpty) =>
            /\ retErr = SelectSeq(Append(ReturnedErrSeq, CtxErr(ctxDone)),
                                   LAMBDA e : e # NilErr)
            /\ (~output.isNil /\ ValidConcurrency) => output.elems = Expected)

\* a second call on a handler left at its defaults, on a longer input than
\* a one-element first call could have had, uses one worker per element
C17_Witness ==
    /\ callNo = 2 /\ Returned
    /\ setConc = <<>> /\ concurrency = DefaultConcurrency
    /\ Len(items) >= 2 /\ numWorkers = Len(items)
    /\ ~output.isNil /\ output.elems = Expected

\* C18: a handler made by MapConcurrent has concurrency 8 and stopOnError
\* true; WithConcurrency(n) changes only the concurrency field and
\* WithStopOnError(b) only the stopOnError field, so after any chain of
\* setter calls, in any order, the configuration is the one given by the last
\* call of each setter (the default for a setter that was not called).
C18_FluentConfiguration ==
    /\ [](mainPc = "config" =>
            /\ concurrency = ConfiguredConcurrency
            /\ stopOnError = ConfiguredStopOnError)
    /\ [][setConc' # setConc =>
            (concurrency' = setConc'[1] /\ UNCHANGED <<stopOnError, fails>>)]_vars
    /\ [][setStop' # setStop =>
            (stopOnError' = setStop'[1] /\ UNCHANGED <<concurrency, fails>>)]_vars

\* both setters were called and the handler holds their arguments, here
\* values that differ from the defaults and a concurrency that is not valid
C18_Witness ==
    /\ mainPc = "config"
    /\ setConc = <<0>> /\ setStop = <<FALSE>>
    /\ concurrency = 0 /\ stopOnError = FALSE

\* only one setter was called: the other field keeps its default
C18_WitnessDefault ==
    /\ mainPc = "config"
    /\ setConc = <<>> /\ setStop = <<FALSE>>
    /\ concurrency = DefaultConcurrency /\ stopOnError = FALSE

\* ---------------------------------------------- vocabulary of the idx claims
\* an ID has been obtained without error
Made == idPc \in {"made", "serialised", "reparsed"} /\ idErr = NoError

\* the positions of the separator in s
Colons(s) == {i \in 1..Len(s) : s[i] = ":"}

\* s is a valid Type: 1 to 32 characters, a letter first, then only
\* letters, digits and underscores
ValidTypeString(s) ==
    /\ Len(s) \in 1..TypeMaxLen
    /\ s[1] \in Letters
    /\ \A i \in 1..Len(s) : s[i] \in Letters \cup Digits \cup {"_"}

\* ------------------------------------------------------------------- C19
\* C19: ID string round trip. For every ID whose components are valid
\* (ID.Validate() returns nil), including every ID that
\* Namespace.NewIDWithValue returned without error, ParseID(id.String())
\* succeeds and returns an ID with the same environment, type and value,
\* whose String() equals id.String().
C19_RoundTrip ==
    (/\ idPc = "reparsed"
     /\ idErr = NoError
     /\ IDValidate(id) = NoError \/ idOp = "new")
        => /\ parsedErr = NoError
           /\ parsed.env = id.env
           /\ parsed.objectType = id.objectType
           /\ parsed.objectID = id.objectID
           /\ String(parsed) = str

\* ------------------------------------------------------------------- C20
\* C20: ParseID(s) succeeds if and only if s holds exactly two separators
\* (three parts) with a non-empty first part, a second part that is a valid
\* Type and a non-empty third part; on success the three parts are returned
\* unchanged as environment, type and value; on failure the zero ID is
\* returned with the error of the first failing check, in the order: part
\* count, empty environment, invalid type, empty object ID.
C20_ParseID ==
    (idOp = "parse" /\ idPc # "input") =>
        LET n == Cardinality(Colons(argS))
            c1 == CHOOSE i \in Colons(argS) : \A j \in Colons(argS) : i <= j
            c2 == CHOOSE i \in Colons(argS) : \A j \in Colons(argS) : j <= i
            p1 == SubSeq(argS, 1, c1 - 1)
            p2 == SubSeq(argS, c1 + 1, c2 - 1)
            p3 == SubSeq(argS, c2 + 1, Len(argS))
        IN /\ idErr = NoError
                <=> (n = 2 /\ p1 # <<>> /\ ValidTypeString(p2) /\ p3 # <<>>)
           /\ idErr = NoError
                => id.env = p1 /\ id.objectType = p2 /\ id.objectID = p3
           /\ idErr # NoError => id = ZeroID
           /\ n # 2 => idErr =
                  <<"invalid ID format: expected 3 parts separated by colons, got ",
                    ToString(n + 1), " parts">>
           /\ (n = 2 /\ p1 = <<>>)
                => idErr = <<"invalid ID: env cannot be empty">>
           /\ (n = 2 /\ p1 # <<>> /\ ~ValidTypeString(p2))
                => idErr = <<"invalid ID: ">> \o TypeValidate(p2)
                   /\ TypeValidate(p2) # NoError
           /\ (n = 2 /\ p1 # <<>> /\ ValidTypeString(p2) /\ p3 = <<>>)
                => idErr = <<"invalid ID: object ID cannot be empty">>

\* a string of three good parts has been parsed
C20_Witness ==
    /\ idOp = "parse" /\ idPc = "made"
    /\ argS = <<"a", ":", "a", "1", ":", "1">>
    /\ idErr = NoError
    /\ id = MakeID(<<"a">>, <<"a", "1">>, <<"1">>)

\* a string of four parts has been rejected for its part count
C20_WitnessPartCount ==
    /\ idOp = "parse" /\ idPc = "made"
    /\ argS = <<"a", ":", "a", ":", "a", ":">>
    /\ id = ZeroID
    /\ idErr = <<"invalid ID format: expected 3 parts separated by colons, got ",
                 "4", " parts">>

\* a string whose type and value are both bad has been rejected for the type
C20_WitnessTypeBeforeValue ==
    /\ idOp = "parse" /\ idPc = "made"
    /\ argS = <<"a", ":", "1", ":">>
    /\ id = ZeroID
    /\ idErr = <<"invalid ID: ",
                 "type must start with a letter and contain only letters, numbers, and underscores">>

\* a string whose environment and type are both empty has been rejected for
\* the environment
C20_WitnessEnvBeforeType ==
    /\ idOp = "parse" /\ idPc = "made"
    /\ argS = <<":", ":", "a">>
    /\ id = ZeroID
    /\ idErr = <<"invalid ID: env cannot be empty">>

\* a string with an empty third part has been rejected for it
C20_WitnessEmptyValue ==
    /\ idOp = "parse" /\ idPc = "made"
    /\ argS = <<"a", ":", "a", ":">>
    /\ id = ZeroID
    /\ idErr = <<"invalid ID: object ID cannot be empty">>

\* a string whose second part has 33 letters has been rejected for the type
C20_WitnessLongType ==
    /\ idOp = "parse" /\ idPc = "made"
    /\ Len(argS) = TypeMaxLen + 5
    /\ id = ZeroID
    /\ idErr = <<"invalid ID: ", "type cannot be longer than 32 characters">>

\* ------------------------------------------------------------------- C21
\* C21: Type.Validate accepts exactly the strings of length 1 to 32 that
\* start with a letter and hold only letters, digits and underscores; for a
\* rejected string it reports the first failing rule in the order: empty,
\* longer than 32 characters, contains a colon, pattern mismatch.
\* ParseType(s) returns (Type(s), nil) exactly when Validate accepts s, and
\* ("", the error of Validate) otherwise.
C21_TypeRules ==
    (idOp = "type" /\ idPc = "typed") =>
        /\ valErr = NoError <=> ValidTypeString(argType)
        /\ argType = <<>> => valErr = <<"type cannot be empty">>
        /\ Len(argType) > TypeMaxLen
             => valErr = <<"type cannot be longer than 32 characters">>
        /\ (Len(argType) \in 1..TypeMaxLen /\ Colons(argType) # {})
             => valErr = <<"type cannot contain colons">>
        /\ (/\ Len(argType) \in 1..TypeMaxLen
            /\ Colons(argType) = {}
            /\ ~ValidTypeString(argType))
             => valErr = <<"type must start with a letter and contain only letters, numbers, and underscores">>
        /\ typErr = NoError <=> valErr = NoError
        /\ typErr = NoError => typ = argType
        /\ typErr # NoError => typ = <<>> /\ typErr = valErr

\* e without its leading and trailing white space
Trimmed(e) ==
    LET keep == {i \in 1..Len(e) : e[i] \notin WhiteSpace}
    IN IF keep = {} THEN <<>>
       ELSE SubSeq(e, CHOOSE i \in keep : \A j \in keep : i <= j,
                      CHOOSE i \in keep : \A j \in keep : j <= i)

\* ------------------------------------------------------------------- C22
\* C22: NewNamespace(e).Environment() equals "vibe" when e with its
\* surrounding white space trimmed is empty or equals "prd", and equals the
\* trimmed e otherwise; the environment of a Namespace built by
\* NewNamespace is therefore never empty and never "prd".
C22_NormalizedEnvironment ==
    (idOp \in {"namespace", "new"} /\ idPc # "input") =>
        /\ ns.environment =
              IF Trimmed(argEnv) = <<>> \/ Trimmed(argEnv) = <<"p", "r", "d">>
              THEN <<"v", "i", "b", "e">>
              ELSE Trimmed(argEnv)
        /\ ns.environment # <<>>
        /\ ns.environment # <<"p", "r", "d">>

\* "prd" between a tab and a newline has become "vibe"
C22_Witness ==
    /\ idOp = "namespace" /\ idPc = "named"
    /\ argEnv = <<"\t", "p", "r", "d", "\n">>
    /\ ns.environment = <<"v", "i", "b", "e">>

\* another name has lost the blanks around it and kept the one inside
C22_WitnessTrimmed ==
    /\ idOp = "namespace" /\ idPc = "named"
    /\ argEnv = <<" ", "a", " ", "a", " ">>
    /\ ns.environment = <<"a", " ", "a">>

\* an environment of white space alone has become "vibe"
C22_WitnessBlank ==
    /\ idOp = "namespace" /\ idPc = "named"
    /\ argEnv = <<"\t", " ", "\n">>
    /\ ns.environment = <<"v", "i", "b", "e">>

\* ------------------------------------------------------------------- C23
\* C23: Namespace.NewIDWithValue(t, v) returns an error and the zero ID when
\* t fails Type.Validate (checked first) or when v is the empty string;
\* otherwise it returns an ID whose environment is the namespace's
\* normalized environment, whose type is t and whose value is v unchanged
\* (values of white space alone are accepted), so that String() is
\* environment + ":" + t + ":" + v.
C23_NewIDWithValue ==
    (idOp = "new" /\ idPc # "input") =>
        /\ idErr # NoError <=> (~ValidTypeString(argType) \/ argValue = <<>>)
        /\ idErr # NoError => id = ZeroID
        /\ ~ValidTypeString(argType)
             => /\ TypeValidate(argType) # NoError
                /\ idErr = <<"invalid object type: ">> \o TypeValidate(argType)
        /\ (ValidTypeString(argType) /\ argValue = <<>>)
             => idErr = <<"value cannot be empty">>
        /\ idErr = NoError
             => /\ id.env = ns.environment
                /\ id.objectType = argType
                /\ id.objectID = argValue
        /\ (idErr = NoError /\ idPc \in {"serialised", "reparsed"})
             => str = ns.environment \o <<":">> \o argType \o <<":">> \o argValue

\* an ID with a value of white space alone has been built in the namespace
\* of " prd" and serialised
C23_Witness ==
    /\ idOp = "new" /\ idPc = "serialised"
    /\ argEnv = <<" ", "p", "r", "d">>
    /\ argType = <<"a", "_">>
    /\ argValue = <<" ">>
    /\ idErr = NoError
    /\ str = <<"v", "i", "b", "e", ":", "a", "_", ":", " ">>

\* a call with a bad type and an empty value has been rejected for the type
C23_WitnessTypeFirst ==
    /\ idOp = "new" /\ idPc = "made"
    /\ argType = <<"1">> /\ argValue = <<>>
    /\ id = ZeroID
    /\ idErr = <<"invalid object type: ",
                 "type must start with a letter and contain only letters, numbers, and underscores">>

\* a call with a good type and an empty value has been rejected for the value
C23_WitnessEmptyValue ==
    /\ idOp = "new" /\ idPc = "made"
    /\ argType = <<"a">> /\ argValue = <<>>
    /\ id = ZeroID
    /\ idErr = <<"value cannot be empty">>

\* ------------------------------------ vocabulary of the slice helper claims
\* the subsequence of s at the positions P, in the order of s
SubseqAt(s, P) ==
    LET F[i \in 0..Len(s)] ==
            IF i = 0 THEN <<>>
            ELSE IF i \in P THEN Append(F[i-1], s[i]) ELSE F[i-1]
    IN F[Len(s)]

\* the helper op has returned
HelperReturned(op) == hOp = op /\ hPc = "returned"

\* the elements of the returned slice
Out == Contents(heap, result)

\* ------------------------------------------------------------------- C24
\* C24: Unique(s) returns the distinct elements of s, each exactly once, in
\* the order of their first occurrence in s; for an empty or nil s it
\* returns nil.
C24_Unique ==
    HelperReturned("Unique") =>
        /\ slice0 = <<>> => result = NilHeader
        /\ slice0 # <<>> =>
             /\ result.arr # 0
             /\ Out = SubseqAt(slice0,
                         {i \in 1..Len(slice0) :
                            \A j \in 1..(i-1) : slice0[j] # slice0[i]})
             /\ \A i, j \in 1..Len(Out) : i # j => Out[i] # Out[j]
             /\ {Out[i] : i \in 1..Len(Out)}
                  = {slice0[i] : i \in 1..Len(slice0)}

\* Unique has returned for a slice whose first element comes back later
C24_Witness ==
    /\ HelperReturned("Unique")
    /\ slice0 = <<2, 1, 2>>
    /\ Out = <<2, 1>>

\* Unique has returned nil for an empty slice that is not nil
C24_WitnessEmpty ==
    /\ HelperReturned("Unique")
    /\ slice.arr # 0 /\ slice.len = 0
    /\ result = NilHeader

\* ------------------------------------------------------------------- C25
\* C25: Group(s, keyFn) partitions s: the keys of the result are the keys of
\* the elements of s, the group of a key holds exactly the elements of s
\* with that key, with their multiplicity and in their order in s; no group
\* is empty; for an empty s the result is an empty map that is not nil.
C25_Group ==
    HelperReturned("Group") =>
        /\ ~groups.isNil
        /\ DOMAIN groups.m = {KeyFn(slice0[i]) : i \in 1..Len(slice0)}
        /\ \A k \in DOMAIN groups.m :
             /\ Contents(heap, groups.m[k])
                  = SubseqAt(slice0, {i \in 1..Len(slice0) : KeyFn(slice0[i]) = k})
             /\ groups.m[k].len > 0
        /\ slice0 = <<>> => groups = EmptyMap

\* Group has returned two groups, one of them with a repeated element
C25_Witness ==
    /\ HelperReturned("Group")
    /\ slice0 = <<1, 2, 1>>
    /\ DOMAIN groups.m = {"even", "odd"}
    /\ Contents(heap, groups.m["odd"]) = <<1, 1>>
    /\ Contents(heap, groups.m["even"]) = <<2>>

\* Group has returned an empty map for the nil slice
C25_WitnessEmpty ==
    /\ HelperReturned("Group")
    /\ slice = NilHeader
    /\ groups = EmptyMap

\* ------------------------------------------------------------------- C26
\* C26: FilterNonZero(s) returns the elements of s that differ from the zero
\* value, in their order and with duplicates kept; the result is never nil,
\* and is empty when s is empty or holds only zero values.
C26_FilterNonZero ==
    HelperReturned("FilterNonZero") =>
        /\ result.arr # 0
        /\ Out = SubseqAt(slice0, {i \in 1..Len(slice0) : slice0[i] # Zero})
        /\ (\A i \in 1..Len(slice0) : slice0[i] = Zero) => result.len = 0

\* FilterNonZero has kept a repeated element and dropped the zero between
C26_Witness ==
    /\ HelperReturned("FilterNonZero")
    /\ slice0 = <<1, 0, 1>>
    /\ Out = <<1, 1>>

\* FilterNonZero has returned an empty slice that is not nil for the nil slice
C26_WitnessEmpty ==
    /\ HelperReturned("FilterNonZero")
    /\ slice = NilHeader
    /\ result.arr # 0 /\ result.len = 0

\* FilterNonZero has returned an empty slice that is not nil for zeros alone
C26_WitnessZeros ==
    /\ HelperReturned("FilterNonZero")
    /\ slice0 = <<0, 0>>
    /\ result.arr # 0 /\ result.len = 0

\* ------------------------------------------------------------------- C27
\* C27: Map(s, fn) returns a slice of the length of s with
\* result[i] = fn(s[i]) for every i, and calls fn exactly once per element,
\* in index order; for an empty or nil s it returns nil without calling fn.
C27_Map ==
    /\ HelperReturned("Map") =>
         /\ slice0 = <<>> => result = NilHeader /\ fnCalls = <<>>
         /\ slice0 # <<>> =>
              /\ result.arr # 0
              /\ Out = [i \in 1..Len(slice0) |-> MapFn(slice0[i])]
              /\ fnCalls = slice0
    /\ (hOp = "Map" /\ hPc = "loop") => fnCalls = SubSeq(slice0, 1, hI - 1)

\* Map has returned for a slice of different elements
C27_Witness ==
    /\ HelperReturned("Map")
    /\ slice0 = <<2, 0, 1>>
    /\ Out = <<21, 1, 11>>
    /\ fnCalls = <<2, 0, 1>>

\* Map has returned nil for an empty slice that is not nil
C27_WitnessEmpty ==
    /\ HelperReturned("Map")
    /\ slice.arr # 0 /\ slice.len = 0
    /\ result = NilHeader /\ fnCalls = <<>>

\* ------------------------------------------------------------------- C28
\* C28: the slice helpers have no side effects on their input. Unique,
\* FilterNonZero, Map, Group and Execute leave the length and every element
\* of the input slice unchanged (for the helpers: the whole backing array,
\* spare capacity included), and the slice or the groups a helper returns
\* lie in other arrays than the input.
C28_InputUntouched ==
    /\ [][/\ slice' = slice
          /\ slice.arr # 0 => heap'[slice.arr] = heap[slice.arr]
          /\ callNo' = callNo => items' = items]_vars
    /\ [](hPc # "off" => Contents(heap, slice) = slice0)
    /\ [](hPc = "returned" =>
            /\ result.arr # 0 => result.arr # slice.arr
            /\ \A k \in DOMAIN groups.m :
                 groups.m[k].arr # 0 /\ groups.m[k].arr # slice.arr)

\* FilterNonZero has returned elements of an input with spare capacity, in
\* an array of its own
C28_Witness ==
    /\ HelperReturned("FilterNonZero")
    /\ slice = [arr |-> 1, len |-> 2, cap |-> 3]
    /\ heap[1] = <<0, 2, 0>>
    /\ result.arr = 2
    /\ Out = <<2>>

\* Group has returned groups that grew by append, each in an array of its own
C28_WitnessGroup ==
    /\ HelperReturned("Group")
    /\ slice0 = <<1, 1, 1>>
    /\ groups.m["odd"].arr \notin {0, slice.arr}
    /\ groups.m["odd"].cap = 4

\* Execute has returned a result for an input it was given
C28_WitnessExecute ==
    /\ Returned /\ NonEmpty /\ ValidConcurrency
    /\ ~output.isNil
    /\ callNo = 2

\* ------------------------------------------------------------------- C29
\* C29: the constraint concurrency >= 1 is enforced at call time, not at
\* construction time: WithConcurrency stores any integer as it is, and
\* Execute on a non-empty input with a configured concurrency below 1 does
\* not return an output that is not nil together with a nil error (it never
\* reports success for elements it did not transform).
C29_InvalidConcurrencyNotSuccess ==
    /\ mainPc = "config" => concurrency = ConfiguredConcurrency
    /\ (Returned /\ NonEmpty /\ concurrency < 1)
         => ~(~output.isNil /\ retErr = <<>>)

\* ------------------------------------------------------------------- C30
\* Execute has spawned its workers and no transform invocation has started
JustStarted ==
    /\ mainPc = "waiting"
    /\ InFlight = 0
    /\ \A i \in Indices : calls[i] = 0

\* C30: for concurrency >= 1, Execute spawns exactly
\* min(concurrency, input length) workers, and this degree of parallelism
\* is attainable: with a transform that holds its worker until the pool is
\* busy, every run reaches a state in which min(concurrency, input length)
\* invocations are in flight at the same time.
C30_FullParallelism ==
    /\ []((ValidConcurrency /\ mainPc \in {"waiting", "joined", "returned"})
            => /\ numWorkers = Min(concurrency, Len(items))
               /\ idle + InFlight + exited = numWorkers)
    /\ (ValidConcurrency /\ JustStarted)
          ~> (InFlight = Min(concurrency, Len(items)))

\* two invocations are in flight under concurrency 2 for three items
C30_Witness ==
    /\ concurrency = 2 /\ Len(items) = 3
    /\ numWorkers = 2
    /\ InFlight = 2

\* two invocations are in flight under the default concurrency for two items
C30_WitnessShortInput ==
    /\ concurrency = DefaultConcurrency /\ Len(items) = 2
    /\ numWorkers = 2
    /\ InFlight = 2

\* ------------------------------------------------------------------- C31
\* C31: for concurrency >= 1, if Execute returns an output that is not nil
\* then the transform was invoked exactly once for every input element and
\* every invocation succeeded: no output position holds a fabricated (zero)
\* value for an element that was not dispatched, not picked up, or skipped
\* because of cancellation.
C31_NoFabricatedResult ==
    (Returned /\ ValidConcurrency /\ ~output.isNil) =>
        /\ \A i \in Indices :
             /\ calls[i] = 1
             /\ returnedErrs[i] = NilErr
             /\ output.elems[i] = MapFuncValue(items[i])
             /\ output.elems[i] # ZeroR
        /\ Len(output.elems) = Len(items)

\* Execute has returned nil for a call in which a cancellation left an
\* element without any invocation
C31_WitnessSkipped ==
    /\ Returned /\ ValidConcurrency /\ NonEmpty
    /\ \E i \in Indices : calls[i] = 0
    /\ output.isNil
    /\ retErr # <<>>

\* Execute has returned an output for three elements under two workers
C31_Witness ==
    /\ Returned /\ concurrency = 2 /\ Len(items) = 3
    /\ ~output.isNil
    /\ \A i \in Indices : calls[i] = 1

\* ------------------------------------------------------------------- C32
\* C32: termination. For concurrency >= 1 and a non-empty input, if every
\* invocation of the transform eventually returns, then under fair
\* scheduling an Execute that has started its pool eventually returns, for
\* either stop-on-error setting and whether or not an element fails or the
\* ambient context is cancelled; and a worker waiting on the job channel
\* does not wait forever: every worker of the pool eventually exits.
C32_Termination ==
    (mainPc = "waiting" /\ ValidConcurrency /\ NonEmpty)
        ~> (Returned /\ exited = numWorkers /\ idle = 0 /\ running = EmptyBag)

\* a call has returned although an element failed, the policy was
\* stop-on-error, the caller cancelled, and a job was left in the channel
C32_Witness ==
    /\ Returned /\ ValidConcurrency /\ NonEmpty
    /\ exited = numWorkers /\ numWorkers >= 2
    /\ stopOnError /\ FailedIndices # {} /\ ctxDone
    /\ jobs # <<>>

\* a call under the collect-all policy has returned after every worker
\* left on the closed, drained channel
C32_WitnessDrained ==
    /\ Returned /\ ValidConcurrency /\ NonEmpty
    /\ ~stopOnError /\ ~ctxDone /\ FailedIndices # {}
    /\ jobs = <<>> /\ jobsClosed /\ exited = numWorkers
    /\ \A i \in Indices : calls[i] = 1

\* the element failures within a joined error
ElemFailures(es) == SelectSeq(es, LAMBDA e : e.kind = "elem")

\* ------------------------------------------------------------------- C33
\* C33: under stop-on-error (and concurrency >= 1) the step in which a
\* worker records a failure of the transform also cancels the child context
\* and ends that worker, which therefore invokes no further transform: at
\* any time there are no more failed elements than exited workers. Hence the
\* aggregated error of a failed call whose ambient context was not cancelled
\* holds at least one and at most min(concurrency, len(items)) element
\* failures.
C33_BoundedFailures ==
    /\ []((Returned /\ ValidConcurrency /\ stopOnError /\ ~ctxDone /\ retErr # <<>>)
            => /\ Len(ElemFailures(retErr)) >= 1
               /\ Len(ElemFailures(retErr)) <= Min(concurrency, Len(items))
               /\ Len(ElemFailures(retErr)) = Cardinality(FailedIndices))
    /\ []((mainPc \in {"waiting", "joined", "returned"} /\ ValidConcurrency
             /\ stopOnError)
            => /\ Cardinality(FailedIndices) <= exited
               /\ exited <= numWorkers
               /\ numWorkers = Min(concurrency, Len(items)))
    /\ [][(/\ mainPc = "waiting" /\ mainPc' = "waiting"
            /\ ValidConcurrency /\ stopOnError
            /\ \E i \in Indices : returnedErrs[i] = NilErr /\ returnedErrs'[i] # NilErr)
           => (/\ childDone'
               /\ exited' = exited + 1
               /\ idle' = idle
               /\ calls' = calls
               /\ BagCardinality(running') = BagCardinality(running) - 1)]_vars

\* a failed stop-on-error call, never cancelled by the caller, whose error
\* holds as many element failures as there were workers
C33_Witness ==
    /\ Returned /\ stopOnError /\ ~ctxDone
    /\ concurrency = 2 /\ Len(items) = 3
    /\ Len(ElemFailures(retErr)) = 2

\* a failed stop-on-error call with one element failure out of two failing
\* elements and two workers
C33_WitnessOne ==
    /\ Returned /\ stopOnError /\ ~ctxDone
    /\ numWorkers = 2
    /\ Cardinality(FailingIndices) >= 2
    /\ Len(ElemFailures(retErr)) = 1

\* ------------------------------------------------------------------- C34
\* C34: when Execute has returned from a started pool (concurrency >= 1),
\* every goroutine the call started has terminated: every worker has exited, no invocation is
\* outstanding, and the dispatcher has finished too.
C34_NoGoroutineOutlivesCall ==
    (Returned /\ childCreated /\ ValidConcurrency)
        => /\ exited = numWorkers /\ idle = 0 /\ running = EmptyBag
           /\ dispPc = "done"

\* the workers' half of C34: when Execute has returned, every worker has
\* exited and no invocation is outstanding
C34_WorkersTerminated ==
    (Returned /\ childCreated /\ ValidConcurrency)
        => (exited = numWorkers /\ idle = 0 /\ running = EmptyBag)

\* the errors the invocations returned, in ascending input-index order
AscendingFailures ==
    LET F[k \in 0..Len(items)] ==
            IF k = 0 THEN <<>>
            ELSE IF returnedErrs[k] # NilErr THEN Append(F[k - 1], returnedErrs[k])
            ELSE F[k - 1]
    IN  F[Len(items)]

\* ------------------------------------------------------------------- C35
\* C35: the aggregated error of a call that ran its pool is a function of
\* the recorded failures and of the ambient context's error alone: it is
\* the element failures in ascending input-index order followed by the
\* ambient context's error, if any, as the last entry, whatever the order
\* in which the workers completed (so two executions with the same failed
\* elements and the same context error return the same aggregated error).
C35_DeterministicErrorOrder ==
    (Returned /\ childCreated)
        => retErr = AscendingFailures \o Join(<<CtxErr(ctxDone)>>)

\* a returned call with two different element failures and a cancelled
\* ambient context: three entries, the context's error last
C35_Witness ==
    /\ Returned /\ childCreated /\ ctxDone
    /\ Len(retErr) = 3
    /\ retErr[1].kind = "elem" /\ retErr[2].kind = "elem"
    /\ retErr[1] # retErr[2]
    /\ retErr[3] = CtxCanceled

\* the failure of a later element is recorded while an earlier element,
\* which will fail too, is still in its invocation
C35_WitnessOutOfOrder ==
    /\ mainPc = "waiting" /\ ~stopOnError
    /\ \E job \in DOMAIN running :
          /\ running[job] > 0
          /\ job.value \in fails
          /\ \E j \in Indices : j > job.index /\ errs[j] # NilErr

\* ------------------------------------------------------------------- C36
\* C36: every ID that ParseID, Namespace.NewID or Namespace.NewIDWithValue
\* returns without an error passes ID.Validate(): its environment is not
\* empty, its type is valid and its value is not empty; and whenever one of
\* them returns an error, the ID returned with it is the zero ID.
C36_ReturnedIDsValid ==
    (idOp \in {"parse", "new", "newid", "zerons"} /\ idPc = "checked")
        => /\ idErr = NoError
                => /\ idValErr = NoError
                   /\ id.env # <<>>
                   /\ TypeValidate(id.objectType) = NoError
                   /\ id.objectID # <<>>
           /\ idErr # NoError => id = ZeroID

\* the same for ParseID and for the methods of a Namespace built by
\* NewNamespace
C36_ValidFromBuiltNamespace ==
    (idOp \in {"parse", "new", "newid"} /\ idPc = "checked")
        => /\ idErr = NoError
                => /\ idValErr = NoError
                   /\ id.env # <<>>
                   /\ TypeValidate(id.objectType) = NoError
                   /\ id.objectID # <<>>
           /\ idErr # NoError => id = ZeroID

\* NewID has returned an ID with a generated value, and it passed Validate
C36_WitnessNewID ==
    /\ idOp = "newid" /\ idPc = "checked"
    /\ idErr = NoError /\ idValErr = NoError
    /\ Len(id.objectID) = KsuidLen
    /\ id.env = <<"v", "i", "b", "e">>

\* NewIDWithValue on the zero Namespace has returned, without an error, an
\* ID that Validate rejects
C36_WitnessZeroNamespace ==
    /\ idOp = "zerons" /\ idPc = "checked"
    /\ idErr = NoError
    /\ id = MakeID(<<>>, <<"a">>, <<"a">>)
    /\ idValErr = <<"env cannot be empty">>

\* ------------------------------------------------------------------- C37
\* C37: for every string s that ParseID accepts, the String() of the ID it
\* returns is s itself: neither parsing nor serialising normalises the
\* environment (blanks are kept, "prd" stays "prd") or any other part.
C37_ParseThenString ==
    (idOp = "parse" /\ idPc \in {"serialised", "reparsed"} /\ idErr = NoError)
        => /\ str = argS
           /\ id.env \o <<":">> \o id.objectType \o <<":">> \o id.objectID = argS

\* " prd:a:a" was accepted and serialised back with its blank and its "prd"
C37_Witness ==
    /\ idOp = "parse" /\ idPc = "serialised" /\ idErr = NoError
    /\ argS = <<" ", "p", "r", "d", ":", "a", ":", "a">>
    /\ id.env = <<" ", "p", "r", "d">>
    /\ str = argS

\* an accepted string whose environment and value are blanks
C37_WitnessBlanks ==
    /\ idOp = "parse" /\ idPc = "serialised" /\ idErr = NoError
    /\ argS = <<" ", ":", "a", ":", " ">>
    /\ str = argS
====
